---- MODULE Spec2Model ----
(***************************************************************************)
(* A model of the zeitgeist NTP server: the timer collection, the routing  *)
(* table with its static routing strategy, the HTTP control plane that     *)
(* mutates both, the one second ticker and the UDP request path.           *)
(*                                                                         *)
(* Representation.  An IP address or mask is the sequence of its bytes     *)
(* (length 4 or 16; the empty sequence is Go's nil).  A timer is an        *)
(* object on the heap, named by its address; the timer collection and the  *)
(* routing table hold addresses, as the Go code holds pointers.  An        *)
(* unsigned 32 bit word is the pair <<high half, low half>> of its 16 bit  *)
(* halves, an instant is [hi, lo, ns]: hi * 65536 + lo seconds since the   *)
(* Unix epoch and ns nanoseconds.                                          *)
(***************************************************************************)
EXTENDS Integers, Sequences, FiniteSets, TLC

VARIABLES
    heap,     \* the timer objects: address -> [kind, Time, NTPPackage]
    timers,   \* the TimerCollection: [idx, entries]
    routes,   \* the RoutingTable: [nextId, entries]
    resp,     \* the last HTTP response of the control plane: [status, message]
    clock,    \* the host's wall clock, time.Now()
    tickerC,  \* timerTicker.C: TRUE when a tick waits in the channel
    handlers, \* the running handleRequest goroutines, in the order of their start
    wire,     \* the last datagram written by WriteToUDP: [to, data]
    routeSet, \* the RoutingTable.Set call in progress: [pc, idx, timerId]
    shutdown, \* the way down: [sigint, listening, idleConnectionsClosed, exited]
    codec,    \* a package on its own: [pkg, data, err], the package, the bytes
              \* last encoded or received, and the error of the last decoding
    log,      \* the last line the NTP server logged as a warning or an error:
              \* [time, level, msg]
    adding,   \* the TimerCollection.Add calls in progress: [pc, id, Timer, kind]
    updating  \* the AllUpdate call in progress: [pc, i, Time]

(***************************************************************************)
(* Bounds of the model.                                                    *)
(***************************************************************************)
MaxTimers == 3      \* timers ever added to the collection
MaxRoutes == 5      \* routes ever added to the table (three at boot)
MaxAdds == 4        \* timers ever added when the timer endpoint is explored alone
MaxRequests == 1    \* handleRequest goroutines running at the same time
MaxTicks == 2       \* seconds the wall clock advances
MaxUpdates == 3     \* seconds the wall clock advances when the ticker is explored alone
MaxHandlers == 2    \* goroutines running at the same time when they are explored alone
MaxHandlerTicks == 1 \* seconds the wall clock advances while they are explored alone
MaxAdding == 2      \* HTTP handlers inside TimerCollection.Add at the same time

(***************************************************************************)
(* Package net: the operations on addresses the routing code calls.        *)
(***************************************************************************)
v4InV6Prefix == <<0, 0, 0, 0, 0, 0, 0, 0, 0, 0, 255, 255>>

RECURSIVE AndBits(_, _, _)
AndBits(a, b, n) ==
    IF n = 0 THEN 0
    ELSE (a % 2) * (b % 2) + 2 * AndBits(a \div 2, b \div 2, n - 1)

\* a & b on bytes
ByteAnd(a, b) ==
    IF b = 255 THEN a ELSE IF b = 0 THEN 0 ELSE AndBits(a, b, 8)

allFF(s) == \A i \in 1..Len(s) : s[i] = 255

\* net.IPv4(a, b, c, d): the 16 byte form of an IPv4 address
IPv4(a, b, c, d) == v4InV6Prefix \o <<a, b, c, d>>

\* net.IP.To4
To4(ip) ==
    IF Len(ip) = 4 THEN ip
    ELSE IF Len(ip) = 16 /\ SubSeq(ip, 1, 12) = v4InV6Prefix
         THEN SubSeq(ip, 13, 16)
         ELSE <<>>

\* net.CIDRMask(ones, bits)
CIDRMask(ones, bits) ==
    [i \in 1..(bits \div 8) |->
        LET k == ones - 8 * (i - 1)
        IN  IF k >= 8 THEN 255 ELSE IF k <= 0 THEN 0 ELSE 256 - 2 ^ (8 - k)]

\* net.IP.Mask
Mask(ip, mask) ==
    LET m == IF Len(mask) = 16 /\ Len(ip) = 4 /\ allFF(SubSeq(mask, 1, 12))
             THEN SubSeq(mask, 13, 16) ELSE mask
        a == IF Len(m) = 4 /\ Len(ip) = 16 /\ SubSeq(ip, 1, 12) = v4InV6Prefix
             THEN SubSeq(ip, 13, 16) ELSE ip
    IN  IF Len(a) # Len(m) THEN <<>>
        ELSE [i \in 1..Len(a) |-> ByteAnd(a[i], m[i])]

\* net.IP.Equal
Equal(ip, x) ==
    IF Len(ip) = Len(x) THEN ip = x
    ELSE IF Len(ip) = 4 /\ Len(x) = 16
         THEN SubSeq(x, 1, 12) = v4InV6Prefix /\ ip = SubSeq(x, 13, 16)
    ELSE IF Len(ip) = 16 /\ Len(x) = 4
         THEN SubSeq(ip, 1, 12) = v4InV6Prefix /\ SubSeq(ip, 13, 16) = x
    ELSE FALSE

\* net.networkNumberAndMask: <<>> for both when the net is malformed
networkNumberAndMask(n) ==
    LET ip4 == To4(n.IP)
        ip  == IF ip4 # <<>> THEN ip4 ELSE n.IP
    IN  IF ip4 = <<>> /\ Len(n.IP) # 16 THEN [ip |-> <<>>, m |-> <<>>]
        ELSE IF Len(n.Mask) = 4
             THEN IF Len(ip) # 4 THEN [ip |-> <<>>, m |-> <<>>]
                  ELSE [ip |-> ip, m |-> n.Mask]
        ELSE IF Len(n.Mask) = 16
             THEN IF Len(ip) = 4 THEN [ip |-> ip, m |-> SubSeq(n.Mask, 13, 16)]
                  ELSE [ip |-> ip, m |-> n.Mask]
        ELSE [ip |-> <<>>, m |-> <<>>]

\* net.IPNet.Contains
IPNetContains(n, ip) ==
    LET nn == networkNumberAndMask(n)
        x  == IF To4(ip) # <<>> THEN To4(ip) ELSE ip
    IN  /\ Len(x) = Len(nn.ip)
        /\ \A i \in 1..Len(x) : ByteAnd(nn.ip[i], nn.m[i]) = ByteAnd(x[i], nn.m[i])

\* net.IP.IsLoopback
IsLoopback(ip) ==
    IF To4(ip) # <<>> THEN To4(ip)[1] = 127
    ELSE Equal(ip, <<0, 0, 0, 0, 0, 0, 0, 0, 0, 0, 0, 0, 0, 0, 0, 1>>)

\* net.IP.IsUnspecified
IsUnspecified(ip) ==
    \/ Equal(ip, IPv4(0, 0, 0, 0))
    \/ Equal(ip, <<0, 0, 0, 0, 0, 0, 0, 0, 0, 0, 0, 0, 0, 0, 0, 0>>)

\* net.IP.IsLinkLocalUnicast
IsLinkLocalUnicast(ip) ==
    IF To4(ip) # <<>> THEN To4(ip)[1] = 169 /\ To4(ip)[2] = 254
    ELSE Len(ip) = 16 /\ ip[1] = 254 /\ ByteAnd(ip[2], 192) = 128

\* The text of a subnet, "a.b.c.d/n" or an IPv6 text with "/n", as the
\* address it spells (4 bytes for dotted text, 16 for IPv6 text) and n.
\* net.ParseCIDR: [ok, ipNet]; dotted text parses to the 16 byte form.
ParseCIDR(s) ==
    LET iplen == Len(s.addr)
        ip    == IF iplen = 4 THEN v4InV6Prefix \o s.addr ELSE s.addr
        m     == CIDRMask(s.ones, 8 * iplen)
    IN  IF s.ones < 0 \/ s.ones > 8 * iplen
        THEN [ok |-> FALSE, ipNet |-> [IP |-> <<>>, Mask |-> <<>>]]
        ELSE [ok |-> TRUE, ipNet |-> [IP |-> Mask(ip, m), Mask |-> m]]

(***************************************************************************)
(* Package ntp: 32 bit words, instants and the packet codec.               *)
(***************************************************************************)
RECURSIVE OrBits(_, _, _)
OrBits(a, b, n) ==
    IF n = 0 THEN 0
    ELSE (IF a % 2 = 1 \/ b % 2 = 1 THEN 1 ELSE 0)
         + 2 * OrBits(a \div 2, b \div 2, n - 1)

U32And(x, y) == <<AndBits(x[1], y[1], 16), AndBits(x[2], y[2], 16)>>
U32Or(x, y)  == <<OrBits(x[1], y[1], 16), OrBits(x[2], y[2], 16)>>
U32Not(x)    == <<65535 - x[1], 65535 - x[2]>>

\* x << n on uint32 (bits shifted out are lost)
U32Shl(x, n) ==
    IF n >= 32 THEN <<0, 0>>
    ELSE IF n >= 16 THEN <<(x[2] * 2 ^ (n - 16)) % 65536, 0>>
    ELSE <<(x[1] * 2 ^ n + (x[2] * 2 ^ n) \div 65536) % 65536,
           (x[2] * 2 ^ n) % 65536>>

\* x >> n on uint32
U32Shr(x, n) ==
    IF n >= 32 THEN <<0, 0>>
    ELSE IF n >= 16 THEN <<0, x[1] \div 2 ^ (n - 16)>>
    ELSE <<x[1] \div 2 ^ n,
           x[2] \div 2 ^ n + (x[1] % 2 ^ n) * 2 ^ (16 - n)>>

\* a small number as a uint32
U32Of(n) == <<0, n>>

NTP_LI_MASK        == <<49152, 0>>    \* 0xC000_0000
NTP_VN_MASK        == <<14336, 0>>    \* 0x3800_0000
NTP_MODE_MASK      == <<1792, 0>>     \* 0x0700_0000
NTP_STRATUM_MASK   == <<255, 0>>      \* 0x00FF_0000
NTP_POLL_MASK      == <<0, 65280>>    \* 0x0000_FF00
NTP_PRECISION_MASK == <<0, 255>>      \* 0x0000_00FF
NTP_VN_V3          == U32Of(3)
NTP_MODE_CLIENT    == U32Of(3)
NTP_MODE_SERVER    == U32Of(4)

\* A setter that does not clear the field first.
SetFieldOr(pkg, mask, shift, value) ==
    [pkg EXCEPT !.header = U32Or(pkg.header, U32And(mask, U32Shl(value, shift)))]

\* A setter that does not cut the value to the field.
SetFieldUnmasked(pkg, mask, shift, value) ==
    [pkg EXCEPT !.header =
        U32Or(U32And(pkg.header, U32Not(mask)), U32Shl(value, shift))]

\* pkg.header &= ^mask; pkg.header |= (mask & (value << shift))
SetField(pkg, mask, shift, value) ==
    [pkg EXCEPT !.header =
        U32Or(U32And(pkg.header, U32Not(mask)), U32And(mask, U32Shl(value, shift)))]

\* (pkg.header & mask) >> shift
GetField(pkg, mask, shift) == U32Shr(U32And(pkg.header, mask), shift)

GetLeap(pkg)      == GetField(pkg, NTP_LI_MASK, 30)
SetLeap(pkg, v)   == SetField(pkg, NTP_LI_MASK, 30, v)
GetVersion(pkg)   == GetField(pkg, NTP_VN_MASK, 27)
SetVersion(pkg, v) == SetField(pkg, NTP_VN_MASK, 27, v)
GetMode(pkg)      == GetField(pkg, NTP_MODE_MASK, 24)
SetMode(pkg, v)   == SetField(pkg, NTP_MODE_MASK, 24, v)
GetStratum(pkg)   == GetField(pkg, NTP_STRATUM_MASK, 16)
SetStratum(pkg, v) == SetField(pkg, NTP_STRATUM_MASK, 16, v)
GetPoll(pkg)      == GetField(pkg, NTP_POLL_MASK, 8)
SetPoll(pkg, v)   == SetField(pkg, NTP_POLL_MASK, 8, v)
GetPrecision(pkg) == GetField(pkg, NTP_PRECISION_MASK, 0)
SetPrecision(pkg, v) == SetField(pkg, NTP_PRECISION_MASK, 0, v)

\* An instant: hi * 65536 + lo seconds since 1970-01-01T00:00:00Z, ns nanoseconds.
Instant(hi, lo, ns) == [hi |-> hi, lo |-> lo, ns |-> ns]

\* time.Time{}: 0001-01-01T00:00:00Z, Unix() = -62135596800
ZeroTime == Instant(-948114, 2304, 0)

\* t.Add(1 * time.Second)
AddSecond(t) ==
    IF t.lo = 65535 THEN [t EXCEPT !.hi = t.hi + 1, !.lo = 0]
    ELSE [t EXCEPT !.lo = t.lo + 1]

\* int64(NtpDelta) = 2208988800 = 33706 * 65536 + 32384
NtpDelta == <<33706, 32384>>

\* A conversion that leaves the epoch offset out.
timestampToUnixSeconds(t) ==
    [secs  |-> <<t.hi % 65536, t.lo>>,
     fracs |-> <<t.ns \div 65536, t.ns % 65536>>]

\* timestampToNtpSeconds: secs = uint32(t.Unix() + int64(NtpDelta)),
\* fracs = uint32(t.Nanosecond()); ns is given as a uint32 too.
timestampToNtpSeconds(t) ==
    LET lo == t.lo + NtpDelta[2]
        hi == t.hi + NtpDelta[1] + lo \div 65536
    IN  [secs  |-> <<hi % 65536, lo % 65536>>,
         fracs |-> <<t.ns \div 65536, t.ns % 65536>>]

\* ntpSecondsToTimestamp: the bytes are written to a scratch buffer and the
\* zero time.Time is returned.
ntpSecondsToTimestamp(secs, fracs) == ZeroTime

\* The zero value of the package struct.
ZeroPackage ==
    [header |-> <<0, 0>>, rootDelay |-> <<0, 0>>, rootDispersion |-> <<0, 0>>,
     referenceClockId |-> <<0, 0>>,
     referenceTimestamp |-> ZeroTime, originateTimestamp |-> ZeroTime,
     receiveTimestamp |-> ZeroTime, transmitTimestamp |-> ZeroTime]

\* MarshalBinary: the datagram as its twelve big-endian 32 bit words.
MarshalBinary(pkg) ==
    LET ref == timestampToNtpSeconds(pkg.referenceTimestamp)
        org == timestampToNtpSeconds(pkg.originateTimestamp)
        rec == timestampToNtpSeconds(pkg.receiveTimestamp)
        xmt == timestampToNtpSeconds(pkg.transmitTimestamp)
    IN  <<pkg.header, pkg.rootDelay, pkg.rootDispersion, pkg.referenceClockId,
          ref.secs, ref.fracs, org.secs, org.fracs,
          rec.secs, rec.fracs, xmt.secs, xmt.fracs>>

\* NTP_PACKAGE_SIZE = 48 bytes, counted here in 32 bit words.
PackageWords == 12

NTP_PACKAGE_SIZE == 48

\* len(data): a full word <<hi, lo>> is four bytes; a datagram that ends
\* within a word has the half word <<hi>> of two bytes as its last element.
RECURSIVE ByteLen(_)
ByteLen(data) ==
    IF data = <<>> THEN 0 ELSE 2 * Len(Head(data)) + ByteLen(Tail(data))

\* An UnmarshalBinary that takes a datagram of exactly 48 bytes only.
UnmarshalBinaryExact(data) ==
    IF ByteLen(data) # NTP_PACKAGE_SIZE THEN [ok |-> FALSE, pkg |-> ZeroPackage]
    ELSE [ok |-> TRUE,
          pkg |-> [header |-> data[1], rootDelay |-> data[2],
                   rootDispersion |-> data[3], referenceClockId |-> data[4],
                   referenceTimestamp |-> ZeroTime, originateTimestamp |-> ZeroTime,
                   receiveTimestamp |-> ZeroTime, transmitTimestamp |-> ZeroTime]]

\* UnmarshalBinary: [ok, pkg]; fails when data is shorter than 48 bytes.
UnmarshalBinary(data) ==
    IF ByteLen(data) < NTP_PACKAGE_SIZE THEN [ok |-> FALSE, pkg |-> ZeroPackage]
    ELSE [ok |-> TRUE,
          pkg |-> [header |-> data[1], rootDelay |-> data[2],
                   rootDispersion |-> data[3], referenceClockId |-> data[4],
                   referenceTimestamp |-> ntpSecondsToTimestamp(data[5], data[6]),
                   originateTimestamp |-> ntpSecondsToTimestamp(data[7], data[8]),
                   receiveTimestamp |-> ntpSecondsToTimestamp(data[9], data[10]),
                   transmitTimestamp |-> ntpSecondsToTimestamp(data[11], data[12])]]

\* ToBytes and PackageFromBytes wrap the two.
ToBytes(pkg) == MarshalBinary(pkg)
PackageFromBytes(data) == UnmarshalBinary(data)

\* GetReferenceClockId: four zero bytes with the id appended (two words).
GetReferenceClockId(pkg) == <<<<0, 0>>, pkg.referenceClockId>>

\* SetReferenceClockId: the big-endian uint32 of the first four bytes.
SetReferenceClockId(pkg, value) == [pkg EXCEPT !.referenceClockId = value[1]]

\* The reply template of every timer: a zero package with version 3, mode
\* server, stratum 1 and reference clock id "NICO" (0x4E49434F).
defaultTimerPackage ==
    SetReferenceClockId(
        SetStratum(SetMode(SetVersion(ZeroPackage, NTP_VN_V3), NTP_MODE_SERVER), U32Of(1)),
        << <<20041, 17231>> >>)

(***************************************************************************)
(* Timers and the timer collection.                                        *)
(***************************************************************************)
\* The nil Timer of the zero TimerCollectionEntry, and of a failed FindTimer.
NilTimer == [addr |-> 0]

IsNil(t) == t = NilTimer

\* A pointer to the timer object at heap address a.
Ptr(a) == [addr |-> a]

\* The next free heap address.
NewAddr(h) == Len(h) + 1

\* Timer.Get: time.Now() for NtpTimer and SystemTimer, the stored Time for
\* ModifyTimer.
TimerGet(h, now, t) ==
    IF h[t.addr].kind = "ModifyTimer" THEN h[t.addr].Time ELSE now

\* Timer.Update: ModifyTimer adds one second, the others do nothing.
TimerUpdate(obj) ==
    IF obj.kind = "ModifyTimer" THEN [obj EXCEPT !.Time = AddSecond(obj.Time)]
    ELSE obj

\* A Set that stores nothing, whatever the kind.
TimerSetIgnored(obj, t) == obj

\* Timer.Set
TimerSet(obj, t) ==
    IF obj.kind = "ModifyTimer" THEN [obj EXCEPT !.Time = t] ELSE obj

\* TimerName
TimerName(h, t) == h[t.addr].kind

\* Timer.Package: the reply template of the timer
TimerPackage(h, t) == h[t.addr].NTPPackage

\* A PackageFromTimer that stamps the receive timestamp too.
PackageFromTimerStampReceive(dst, src, now) ==
    [dst EXCEPT !.header = src.header, !.rootDelay = src.rootDelay,
                !.rootDispersion = src.rootDispersion,
                !.referenceClockId = GetReferenceClockId(src)[1],
                !.referenceTimestamp = now, !.originateTimestamp = now,
                !.receiveTimestamp = now]

\* PackageFromTimer: the header fields, root delay, root dispersion and
\* reference clock id of src are copied to dst, the reference and originate
\* timestamps are timer.Get(); receive and transmit stay as they are in dst.
PackageFromTimer(dst, src, now) ==
    LET hdr == SetPrecision(SetPoll(SetStratum(SetMode(SetVersion(SetLeap(dst,
                    GetLeap(src)), GetVersion(src)), GetMode(src)),
                    GetStratum(src)), GetPoll(src)), GetPrecision(src))
        ids == SetReferenceClockId(
                    [hdr EXCEPT !.rootDelay = src.rootDelay,
                                !.rootDispersion = src.rootDispersion],
                    GetReferenceClockId(src))
    IN  [ids EXCEPT !.referenceTimestamp = now, !.originateTimestamp = now]

NewTimerCollection == [idx |-> 0, entries |-> <<>>]

\* An Add that numbers a timer by the current length of the collection.
AddByLength(c, timer) ==
    [c  |-> [idx |-> c.idx + 1,
             entries |-> Append(c.entries, [Id |-> Len(c.entries), Timer |-> timer])],
     id |-> Len(c.entries)]

\* TimerCollection.Add: [c, id]
Add(c, timer) ==
    [c  |-> [idx |-> c.idx + 1,
             entries |-> Append(c.entries, [Id |-> c.idx, Timer |-> timer])],
     id |-> c.idx]

\* The index of the first entry (timer or route) with Id = id, 0 when none.
RECURSIVE IndexOf(_, _, _)
IndexOf(entries, id, i) ==
    IF i > Len(entries) THEN 0
    ELSE IF entries[i].Id = id THEN i
    ELSE IndexOf(entries, id, i + 1)

\* A Get that falls back to the first entry when the id is not found.
GetOrFirst(c, id) ==
    LET i == IndexOf(c.entries, id, 1)
    IN  IF i = 0 THEN c.entries[1] ELSE c.entries[i]

\* TimerCollection.Get: the entry, or the zero entry
Get(c, id) ==
    LET i == IndexOf(c.entries, id, 1)
    IN  IF i = 0 THEN [Id |-> 0, Timer |-> NilTimer] ELSE c.entries[i]

\* A Remove that moves the last entry into the freed slot.
RemoveSwapLast(c, index) ==
    [c EXCEPT !.entries =
        IF index = Len(c.entries) THEN SubSeq(c.entries, 1, index - 1)
        ELSE SubSeq([c.entries EXCEPT ![index] = c.entries[Len(c.entries)]],
                    1, Len(c.entries) - 1)]

\* TimerCollection.Remove: by index (1-based here)
Remove(c, index) ==
    [c EXCEPT !.entries =
        SubSeq(c.entries, 1, index - 1) \o SubSeq(c.entries, index + 1, Len(c.entries))]

\* A Delete that drops the last entry when the id is not found.
DeleteOrLast(c, id) ==
    LET i == IndexOf(c.entries, id, 1)
    IN  IF i = 0
        THEN [c |-> IF c.entries = <<>> THEN c ELSE Remove(c, Len(c.entries)),
              err |-> TRUE]
        ELSE [c |-> Remove(c, i), err |-> FALSE]

\* TimerCollection.Delete: [c, err]
Delete(c, id) ==
    LET i == IndexOf(c.entries, id, 1)
    IN  IF i = 0 THEN [c |-> c, err |-> TRUE]
        ELSE [c |-> Remove(c, i), err |-> FALSE]

\* TimerCollection.All and Length
All(c) == c.entries
Length(c) == Len(c.entries)

\* An AllUpdate that stops after the first entry.
AllUpdateFirstOnly(h, c) ==
    IF c.entries = <<>> THEN h
    ELSE [h EXCEPT ![c.entries[1].Timer.addr] =
                        TimerUpdate(h[c.entries[1].Timer.addr])]

\* TimerCollection.AllUpdate: the heap after Update of every entry's timer
RECURSIVE AllUpdateFrom(_, _, _)
AllUpdateFrom(h, entries, i) ==
    IF i > Len(entries) THEN h
    ELSE AllUpdateFrom(
            [h EXCEPT ![entries[i].Timer.addr] = TimerUpdate(h[entries[i].Timer.addr])],
            entries, i + 1)

AllUpdate(h, c) == AllUpdateFrom(h, c.entries, 1)

(***************************************************************************)
(* The routing table and the static routing strategy.                      *)
(***************************************************************************)
NewRoutingTable == [nextId |-> 0, entries |-> <<>>]

\* A Contains that finds nothing.
ContainsNever(t, value) == FALSE

\* RoutingTable.Contains: an entry with an equal IP exists
Contains(t, value) ==
    \E i \in 1..Len(t.entries) : Equal(t.entries[i].IPNet.IP, value.IP)

\* An Add that numbers the new entry by the length of the table.
RouteAddByLength(t, ipNet, timer, timerId) ==
    IF Contains(t, ipNet) THEN [t |-> t, err |-> TRUE]
    ELSE [t |-> [nextId |-> t.nextId + 1,
                 entries |-> Append(t.entries,
                    [Id |-> Len(t.entries), IPNet |-> ipNet,
                     Timer |-> timer, TimerId |-> timerId])],
          err |-> FALSE]

\* RoutingTable.Add: [t, err]
RouteAdd(t, ipNet, timer, timerId) ==
    IF Contains(t, ipNet) THEN [t |-> t, err |-> TRUE]
    ELSE [t |-> [nextId |-> t.nextId + 1,
                 entries |-> Append(t.entries,
                    [Id |-> t.nextId, IPNet |-> ipNet,
                     Timer |-> timer, TimerId |-> timerId])],
          err |-> FALSE]

\* RoutingTable.MustAdd: boot only, where Add cannot fail
MustAdd(t, ipNet, timer, timerId) == RouteAdd(t, ipNet, timer, timerId).t

\* RoutingTable.Get: [found, entry]
RouteGet(t, id) ==
    LET i == IndexOf(t.entries, id, 1)
    IN  IF i = 0 THEN [found |-> FALSE] ELSE [found |-> TRUE, entry |-> t.entries[i]]

\* A Set that stores the timer id and keeps the old timer reference.
RouteSetIdOnly(t, id, timer, timerId) ==
    LET i == IndexOf(t.entries, id, 1)
    IN  IF i = 0 THEN [t |-> t, err |-> TRUE]
        ELSE [t |-> [t EXCEPT !.entries[i].TimerId = timerId], err |-> FALSE]

\* A Set that retargets every entry of the table.
RouteSetAll(t, id, timer, timerId) ==
    IF IndexOf(t.entries, id, 1) = 0 THEN [t |-> t, err |-> TRUE]
    ELSE [t |-> [t EXCEPT !.entries =
                    [k \in 1..Len(t.entries) |->
                        [t.entries[k] EXCEPT !.Timer = timer, !.TimerId = timerId]]],
          err |-> FALSE]

\* RoutingTable.Set: [t, err]
RouteSet(t, id, timer, timerId) ==
    LET i == IndexOf(t.entries, id, 1)
    IN  IF i = 0 THEN [t |-> t, err |-> TRUE]
        ELSE [t |-> [t EXCEPT !.entries[i].Timer = timer,
                              !.entries[i].TimerId = timerId],
              err |-> FALSE]

\* RoutingTable.Remove: the entry with the id is deleted; an error when absent
RouteRemove(t, id) ==
    LET i == IndexOf(t.entries, id, 1)
    IN  IF i = 0 THEN [t |-> t, err |-> TRUE]
        ELSE [t |-> [t EXCEPT !.entries =
                        SubSeq(t.entries, 1, i - 1)
                        \o SubSeq(t.entries, i + 1, Len(t.entries))],
              err |-> FALSE]

\* The first pass of FindTimer: ip.Mask(entry.IPNet.Mask).Equal(entry.IPNet.IP)
MatchEqual(entry, ip) == Equal(Mask(ip, entry.IPNet.Mask), entry.IPNet.IP)

\* The second pass of FindTimer: entry.IPNet.Contains(ip)
MatchContains(entry, ip) == IPNetContains(entry.IPNet, ip)

\* A scan in insertion order: the lowest matching index up to i, 0 if none.
ScanEqualForward(entries, ip, i) ==
    LET m == {j \in 1..i : MatchEqual(entries[j], ip)}
    IN  IF m = {} THEN 0 ELSE CHOOSE j \in m : \A k \in m : j <= k

\* for i := len(entries) - 1; i >= 0; i-- : the first i that matches, 0 if none
RECURSIVE ScanEqual(_, _, _)
ScanEqual(entries, ip, i) ==
    IF i = 0 THEN 0
    ELSE IF MatchEqual(entries[i], ip) THEN i
    ELSE ScanEqual(entries, ip, i - 1)

RECURSIVE ScanContains(_, _, _)
ScanContains(entries, ip, i) ==
    IF i = 0 THEN 0
    ELSE IF MatchContains(entries[i], ip) THEN i
    ELSE ScanContains(entries, ip, i - 1)

\* StaticRouting.FindTimer, the entry it returns from: the index of the first
\* pass's match, else of the second pass's, else 0.
FindIndex(t, ip) ==
    LET i == ScanEqual(t.entries, ip, Len(t.entries))
    IN  IF i # 0 THEN i ELSE ScanContains(t.entries, ip, Len(t.entries))

\* StaticRouting.FindTimer: [err, Timer]
FindTimer(t, ip) ==
    LET i == FindIndex(t, ip)
    IN  IF i # 0 THEN [err |-> FALSE, Timer |-> t.entries[i].Timer]
        ELSE [err |-> TRUE, Timer |-> NilTimer]

defaultRoute == [IP |-> IPv4(0, 0, 0, 0), Mask |-> CIDRMask(0, 32)]
ipv4Route    == [IP |-> IPv4(127, 0, 0, 0), Mask |-> CIDRMask(24, 32)]
ipv6Route    == [IP |-> <<0, 0, 0, 0, 0, 0, 0, 0, 0, 0, 0, 0, 0, 0, 0, 0>>,
                 Mask |-> CIDRMask(120, 128)]

\* NewStaticRouting: the table with the three boot routes
NewStaticRouting(table, defaultTimer, timerId) ==
    MustAdd(MustAdd(MustAdd(table, defaultRoute, defaultTimer, timerId),
                    ipv4Route, defaultTimer, timerId),
            ipv6Route, defaultTimer, timerId)

\* A guard that only knows the loopback addresses.
isLoopbackRoute(ipNet) == IsLoopback(ipNet.IP)

\* isDefaultRoute
isDefaultRoute(ipNet) ==
    IsLoopback(ipNet.IP) \/ IsUnspecified(ipNet.IP) \/ IsLinkLocalUnicast(ipNet.IP)


(***************************************************************************)
(* Inputs drawn by the actions.                                            *)
(***************************************************************************)
\* The subnet texts an operator sends: 192.168.1.0/24, 192.168.2.11/32,
\* 10.0.0.0/8, 127.0.0.1/32, ::8000:0:0/81, 192.168.1.77/24 and the
\* unparsable 10.0.0.0/33.
Subnets ==
    { [addr |-> <<192, 168, 1, 0>>, ones |-> 24],
      [addr |-> <<192, 168, 2, 11>>, ones |-> 32],
      [addr |-> <<10, 0, 0, 0>>, ones |-> 8],
      [addr |-> <<127, 0, 0, 1>>, ones |-> 32],
      [addr |-> <<0, 0, 0, 0, 0, 0, 0, 0, 0, 0, 128, 0, 0, 0, 0, 0>>, ones |-> 81],
      [addr |-> <<192, 168, 1, 77>>, ones |-> 24],
      [addr |-> <<10, 0, 0, 0>>, ones |-> 33] }

\* 2000-01-01T00:00:00Z = 946684800 s
T2000 == Instant(14445, 17280, 0)

\* time.Parse(time.RFC822, body) of the bodies an operator sends: the text
\* of 2000-01-01T00:00:00Z, and a text that does not parse.
SetBodies == {[ok |-> TRUE, time |-> T2000], [ok |-> FALSE, time |-> ZeroTime]}

\* The wall clock at boot: 2024-01-01T00:00:00.5Z = 1704067200.5 s
Clock0 == Instant(26002, 128, 500000000)

TimerIds == 0..MaxTimers
RouteIds == 0..MaxRoutes

\* api.MustJsonResponse: the status code and the message of the JSON body
Response(status, message) == [status |-> status, message |-> message]

(***************************************************************************)
(* Boot: main builds the default timer, the collection and the routing.    *)
(***************************************************************************)
\* No RoutingTable.Set call is between its two assignments.
NoSet == [pc |-> "idle", idx |-> 0, timerId |-> 0]

\* Both servers are up: no SIGINT has arrived, the web server listens, the
\* channel idleConnectionsClosed is open and the process runs.
Serving == [sigint |-> FALSE, listening |-> TRUE,
            idleConnectionsClosed |-> FALSE, exited |-> FALSE]

\* Nothing has been logged as a warning or an error.
NoLog == [time |-> ZeroTime, level |-> "none", msg |-> ""]

\* main is not inside AllUpdate.
NoUpdate == [pc |-> "idle", i |-> 0, Time |-> ZeroTime]

Init ==
    LET defaultTimer == [kind |-> "SystemTimer", Time |-> ZeroTime,
                         NTPPackage |-> defaultTimerPackage]
        added == Add(NewTimerCollection, Ptr(1))
    IN  /\ heap = <<defaultTimer>>
        /\ timers = added.c
        /\ routes = NewStaticRouting(NewRoutingTable, Ptr(1), added.id)
        /\ resp = Response("none", "")
        /\ clock = Clock0
        /\ tickerC = FALSE
        /\ handlers = <<>>
        /\ wire = [to |-> <<>>, data |-> <<>>]
        /\ routeSet = NoSet
        /\ shutdown = Serving
        /\ codec = [pkg |-> ZeroPackage, data |-> <<>>, err |-> FALSE]
        /\ log = NoLog
        /\ adding = <<>>
        /\ updating = NoUpdate


(***************************************************************************)
(* The timer endpoint of the control plane.                                *)
(***************************************************************************)
\* packageFromReq: the same template for every created timer
packageFromReq == defaultTimerPackage

\* newNtpTimer, newSystemTimer, newModifyTimer share this shape; the response
\* is mustJsonTimerResponse's, which carries the new id.  limit bounds the
\* number of timers ever added.
newTimer(kind, limit) ==
    /\ timers.idx < limit
    /\ LET timer == [kind |-> kind,
                     Time |-> IF kind = "ModifyTimer" THEN clock ELSE ZeroTime,
                     NTPPackage |-> packageFromReq]
           added == Add(timers, Ptr(NewAddr(heap)))
       IN  /\ heap' = Append(heap, timer)
           /\ timers' = added.c
           /\ resp' = [status |-> "StatusCreated", message |-> kind, Id |-> added.id]
    /\ UNCHANGED <<routes, clock, tickerC, handlers, wire, routeSet, shutdown, codec, log, adding, updating>>

\* getAllTimers: one element per entry of All(), with the position in the
\* slice as its id and TimerName as its type.
getAllTimers ==
    /\ resp' = [status |-> "StatusOK", message |-> "",
                Length |-> Length(timers),
                Timers |-> [idx \in 1..Len(All(timers)) |->
                              [Id |-> idx - 1,
                               Type |-> TimerName(heap, All(timers)[idx].Timer)]]]
    /\ UNCHANGED <<heap, timers, routes, clock, tickerC, handlers, wire, routeSet, shutdown, codec, log, adding, updating>>

\* A handler that creates a timer, seen statement by statement, as the
\* goroutines of net/http run side by side without a lock.  First the timer
\* is built and Add takes `id := c.idx`.
newTimerBegin(kind, limit) ==
    /\ Len(adding) < MaxAdding
    /\ Len(heap) < limit + 1
    /\ heap' = Append(heap, [kind |-> kind,
                             Time |-> IF kind = "ModifyTimer" THEN clock ELSE ZeroTime,
                             NTPPackage |-> packageFromReq])
    /\ adding' = Append(adding, [pc |-> "idx++", id |-> timers.idx,
                                 Timer |-> Ptr(NewAddr(heap)), kind |-> kind])
    /\ UNCHANGED <<timers, routes, resp, clock, tickerC, handlers, wire, routeSet, shutdown, codec, log, updating>>

\* Add: `c.idx++`
AddIncrement(a) ==
    /\ adding[a].pc = "idx++"
    /\ timers' = [timers EXCEPT !.idx = @ + 1]
    /\ adding' = [adding EXCEPT ![a].pc = "append"]
    /\ UNCHANGED <<heap, routes, resp, clock, tickerC, handlers, wire, routeSet, shutdown, codec, log, updating>>

\* Add: `c.entries = append(c.entries, ...)` and `return id`; the handler
\* answers with the id.
AddAppend(a) ==
    /\ adding[a].pc = "append"
    /\ timers' = [timers EXCEPT !.entries =
                    Append(@, [Id |-> adding[a].id, Timer |-> adding[a].Timer])]
    /\ resp' = [status |-> "StatusCreated", message |-> adding[a].kind,
                Id |-> adding[a].id]
    /\ adding' = SubSeq(adding, 1, a - 1) \o SubSeq(adding, a + 1, Len(adding))
    /\ UNCHANGED <<heap, routes, clock, tickerC, handlers, wire, routeSet, shutdown, codec, log, updating>>

newNtpTimer(limit) == newTimer("NtpTimer", limit)

newSystemTimer(limit) == newTimer("SystemTimer", limit)

newModifyTimer(limit) == newTimer("ModifyTimer", limit)

deleteTimer(id) ==
    LET d == Delete(timers, id)
    IN  /\ timers' = d.c
        /\ resp' = IF d.err
                   THEN Response("StatusOK", "can not delete timer by id")
                   ELSE Response("StatusAccepted", "delete timer success")
        /\ UNCHANGED <<heap, routes, clock, tickerC, handlers, wire, routeSet, shutdown, codec, log, adding, updating>>

updateTimer(id, body) ==
    LET timer == Get(timers, id)
    IN  /\ IF IsNil(timer.Timer)
           THEN /\ resp' = Response("StatusNoContent",
                                    "can not find timer by id")
                /\ heap' = heap
           ELSE IF heap[timer.Timer.addr].kind = "ModifyTimer"
           THEN IF ~body.ok
                THEN /\ resp' = Response("StatusBadRequest",
                                         "can not parse time")
                     /\ heap' = heap
                ELSE /\ heap' = [heap EXCEPT ![timer.Timer.addr] =
                                    TimerSet(heap[timer.Timer.addr], body.time)]
                     /\ resp' = Response("StatusOK",
                                         "timer update successful")
           ELSE /\ resp' = Response("StatusConflict",
                                    "timer can not modified")
                /\ heap' = heap
        /\ UNCHANGED <<timers, routes, clock, tickerC, handlers, wire, routeSet, shutdown, codec, log, adding, updating>>

(***************************************************************************)
(* The route endpoint of the control plane.                                *)
(***************************************************************************)
newRoute(timerId, subnet) ==
    LET timer  == Get(timers, timerId)
        parsed == ParseCIDR(subnet)
        added  == RouteAdd(routes, parsed.ipNet, timer.Timer, timer.Id)
    IN  /\ routes.nextId < MaxRoutes
        /\ IF IsNil(timer.Timer)
           THEN /\ resp' = Response("StatusBadRequest",
                                    "can not find timer")
                /\ routes' = routes
           ELSE IF ~parsed.ok
           THEN /\ resp' = Response("StatusBadRequest",
                                    "can not parse subnet")
                /\ routes' = routes
           ELSE IF added.err
           THEN /\ resp' = Response("StatusConflict",
                                    "route with subnet exist")
                /\ routes' = routes
           ELSE /\ resp' = Response("StatusCreated",
                                    "create new route success")
                /\ routes' = added.t
        /\ UNCHANGED <<heap, timers, clock, tickerC, handlers, wire, routeSet, shutdown, codec, log, adding, updating>>

deleteRoute(routeId) ==
    LET route   == RouteGet(routes, routeId)
        removed == RouteRemove(routes, routeId)
    IN  /\ IF ~route.found
           THEN /\ resp' = Response("StatusBadRequest",
                                    "entity not found")
                /\ routes' = routes
           ELSE IF isDefaultRoute(route.entry.IPNet)
           THEN /\ resp' = Response("StatusForbidden",
                                    "can not delete default route")
                /\ routes' = routes
           ELSE IF removed.err
           THEN /\ resp' = Response("StatusBadRequest",
                                    "entity not found")
                /\ routes' = routes
           ELSE /\ resp' = Response("StatusCreated",
                                    "deletion route success")
                /\ routes' = removed.t
        /\ UNCHANGED <<heap, timers, clock, tickerC, handlers, wire, routeSet, shutdown, codec, log, adding, updating>>

updateRoute(routeId, timerId) ==
    LET timer == Get(timers, timerId)
        set   == RouteSet(routes, routeId, timer.Timer, timer.Id)
    IN  /\ IF IsNil(timer.Timer) \/ set.err
           THEN /\ resp' = Response("StatusBadRequest",
                                    "entity not found")
                /\ routes' = routes
           ELSE /\ resp' = Response("StatusOK",
                                    "route updated successful")
                /\ routes' = set.t
        /\ UNCHANGED <<heap, timers, clock, tickerC, handlers, wire, routeSet, shutdown, codec, log, adding, updating>>

\* updateRoute as the other goroutines see it. The HTTP handler runs in a
\* goroutine of its own and holds no lock: RoutingTable.Set assigns
\* entries[idx].Timer first, and a handleRequest goroutine can run before
\* it assigns entries[idx].TimerId.
updateRouteBegin(routeId, timerId) ==
    LET timer == Get(timers, timerId)
        i     == IndexOf(routes.entries, routeId, 1)
    IN  /\ routeSet.pc = "idle"
        /\ IF IsNil(timer.Timer) \/ i = 0
           THEN /\ resp' = Response("StatusBadRequest",
                                    "entity not found")
                /\ UNCHANGED <<routes, routeSet>>
           ELSE /\ routes' = [routes EXCEPT !.entries[i].Timer = timer.Timer]
                /\ routeSet' = [pc |-> "TimerId", idx |-> i, timerId |-> timer.Id]
                /\ resp' = resp
        /\ UNCHANGED <<heap, timers, clock, tickerC, handlers, wire, shutdown, codec, log, adding, updating>>

\* The rest of Set and of updateRoute: the second assignment and the response.
updateRouteEnd ==
    /\ routeSet.pc = "TimerId"
    /\ routes' = [routes EXCEPT !.entries[routeSet.idx].TimerId = routeSet.timerId]
    /\ resp' = Response("StatusOK", "route updated successful")
    /\ routeSet' = NoSet
    /\ UNCHANGED <<heap, timers, clock, tickerC, handlers, wire, shutdown, codec, log, adding, updating>>

\* net.IPNet.String as the subnet it spells: the address in its short form
\* and the number of ones of the mask.
ByteOnes(b) ==
    CASE b = 0 -> 0 [] b = 128 -> 1 [] b = 192 -> 2 [] b = 224 -> 3
      [] b = 240 -> 4 [] b = 248 -> 5 [] b = 252 -> 6 [] b = 254 -> 7
      [] OTHER -> 8

RECURSIVE simpleMaskLength(_)
simpleMaskLength(mask) ==
    IF mask = <<>> THEN 0
    ELSE IF Head(mask) = 255 THEN 8 + simpleMaskLength(Tail(mask))
    ELSE ByteOnes(Head(mask))

IPNetString(n) ==
    [addr |-> IF To4(n.IP) # <<>> THEN To4(n.IP) ELSE n.IP,
     ones |-> simpleMaskLength(n.Mask)]

\* time.Time.Format(time.RFC3339): the instant to the second.
FormatRFC3339(t) == [hi |-> t.hi, lo |-> t.lo]

\* getDefaultRoute: one element per entry of All() that isDefaultRoute
\* accepts, in the order of the table.
getDefaultRoute ==
    LET defaults == SelectSeq(routes.entries, LAMBDA e : isDefaultRoute(e.IPNet))
    IN  /\ resp' = [status |-> "StatusOK", message |-> "",
                    Length |-> Len(defaults),
                    Routes |-> [i \in 1..Len(defaults) |->
                        [Id |-> defaults[i].Id,
                         Subnet |-> IPNetString(defaults[i].IPNet),
                         Timer |-> [Id |-> defaults[i].TimerId,
                                    Type |-> TimerName(heap, defaults[i].Timer),
                                    Value |-> FormatRFC3339(
                                        TimerGet(heap, clock, defaults[i].Timer))]]]]
        /\ UNCHANGED <<heap, timers, routes, clock, tickerC, handlers, wire, routeSet, shutdown, codec, log, adding, updating>>

\* A loop that retargets the boot routes only.
RECURSIVE SetDefaultsBootOnly(_, _, _, _)
SetDefaultsBootOnly(t, timer, timerId, i) ==
    IF i > Len(t.entries) \/ i > 3 THEN t
    ELSE IF isDefaultRoute(t.entries[i].IPNet)
         THEN SetDefaultsBootOnly(RouteSet(t, t.entries[i].Id, timer, timerId).t,
                                  timer, timerId, i + 1)
         ELSE SetDefaultsBootOnly(t, timer, timerId, i + 1)

\* The loop of updateDefaultRoute over e.routes.All(): Set on every default entry.
RECURSIVE SetDefaults(_, _, _, _)
SetDefaults(t, timer, timerId, i) ==
    IF i > Len(t.entries) THEN t
    ELSE IF isDefaultRoute(t.entries[i].IPNet)
         THEN SetDefaults(RouteSet(t, t.entries[i].Id, timer, timerId).t,
                          timer, timerId, i + 1)
         ELSE SetDefaults(t, timer, timerId, i + 1)

updateDefaultRoute(timerId) ==
    LET timer == Get(timers, timerId)
    IN  /\ IF IsNil(timer.Timer)
           THEN /\ resp' = Response("StatusBadRequest",
                                    "entity not found")
                /\ routes' = routes
           ELSE /\ resp' = Response("StatusOK",
                                    "default route update success")
                /\ routes' = SetDefaults(routes, timer.Timer, timer.Id, 1)
        /\ UNCHANGED <<heap, timers, clock, tickerC, handlers, wire, routeSet, shutdown, codec, log, adding, updating>>

(***************************************************************************)
(* The NTP server: Serve reads a datagram and starts a handleRequest        *)
(* goroutine, whose steps are taken one at a time.                         *)
(***************************************************************************)
\* A client's request: version 3, mode client, its transmit timestamp xmt.
ClientRequest(xmt) ==
    LET pkg == SetMode(SetVersion(ZeroPackage, NTP_VN_V3), NTP_MODE_CLIENT)
        t   == timestampToNtpSeconds(xmt)
    IN  <<pkg.header, <<0, 0>>, <<0, 0>>, <<0, 0>>, <<0, 0>>, <<0, 0>>,
          <<0, 0>>, <<0, 0>>, <<0, 0>>, <<0, 0>>, t.secs, t.fracs>>

\* The client's own clock when it sends: 2023-12-31T23:59:59.25Z
ClientClock == Instant(26002, 127, 250000000)

\* The datagrams clients send: a request stamped with the client's clock and
\* a datagram of four bytes.
Datagrams ==
    { ClientRequest(ClientClock), <<SetVersion(ZeroPackage, NTP_VN_V3).header>> }

\* The remote addresses of the datagrams: 10.0.0.5 as the 4 byte address of
\* an IPv4 socket, and 2001:db8::1.
ServeIPs ==
    { <<10, 0, 0, 5>>, <<32, 1, 13, 184, 0, 0, 0, 0, 0, 0, 0, 0, 0, 0, 0, 1>> }

\* data := make([]byte, 48); conn.ReadFromUDP(data): the buffer keeps its
\* zeros behind a short datagram and takes the first 48 bytes of a long one.
ReadFromUDP(dgram) ==
    [i \in 1..PackageWords |-> IF i <= Len(dgram) THEN dgram[i] ELSE <<0, 0>>]

\* log.Warn and log.Error of the NTP server: the line carries its time.
Warn(now, msg) == [time |-> now, level |-> "warning", msg |-> msg]
Error(now, msg) == [time |-> now, level |-> "error", msg |-> msg]

\* The goroutines without the one at position h.
Exit(hs, h) == SubSeq(hs, 1, h - 1) \o SubSeq(hs, h + 1, Len(hs))

\* A Serve with one buffer for all turns of the loop: the datagram read
\* overwrites the buffer the running goroutines decode from.
ServeLimitSharedBuffer(limit, ip, dgram) ==
    /\ Len(handlers) < limit
    /\ IF ip = <<>>
       THEN /\ log' = Warn(clock, "request has missing remote address")
            /\ handlers' = [h \in 1..Len(handlers) |->
                               [handlers[h] EXCEPT !.data = ReadFromUDP(dgram)]]
       ELSE /\ log' = log
            /\ handlers' = Append(
                  [h \in 1..Len(handlers) |->
                      [handlers[h] EXCEPT !.data = ReadFromUDP(dgram)]],
                  [pc |-> "decode", addr |-> ip, data |-> ReadFromUDP(dgram),
                   rLen |-> IF Len(dgram) < PackageWords THEN Len(dgram) ELSE PackageWords,
                   rxTimestamp |-> clock, pkg |-> ZeroPackage, timer |-> NilTimer,
                   resBytes |-> <<>>])
    /\ UNCHANGED <<heap, timers, routes, resp, clock, tickerC, wire, routeSet, shutdown, codec, adding, updating>>

\* A Serve that calls handleRequest without go: it reads the next datagram
\* when the handler has returned.
ServeLimitWaits(limit, ip, dgram) ==
    /\ Len(handlers) < limit
    /\ handlers = <<>>
    /\ IF ip = <<>>
       THEN /\ log' = Warn(clock, "request has missing remote address")
            /\ handlers' = handlers
       ELSE /\ log' = log
            /\ handlers' = Append(handlers,
                  [pc |-> "decode", addr |-> ip, data |-> ReadFromUDP(dgram),
                   rLen |-> IF Len(dgram) < PackageWords THEN Len(dgram) ELSE PackageWords,
                   rxTimestamp |-> clock, pkg |-> ZeroPackage, timer |-> NilTimer,
                   resBytes |-> <<>>])
    /\ UNCHANGED <<heap, timers, routes, resp, clock, tickerC, wire, routeSet, shutdown, codec, adding, updating>>

\* One turn of the loop of Serve: read, take the receive timestamp, go
\* handleRequest.  ReadFromUDP returns the remote address with the datagram;
\* without a remote address (ip = <<>>) the turn logs a warning and goes on.
\* rLen is the length read, in words; Serve logs it and hands the whole
\* buffer to handleRequest.  limit bounds the goroutines running at a time.
ServeLimit(limit, ip, dgram) ==
    /\ Len(handlers) < limit
    /\ IF ip = <<>>
       THEN /\ log' = Warn(clock, "request has missing remote address")
            /\ handlers' = handlers
       ELSE /\ log' = log
            /\ handlers' = Append(handlers,
                  [pc |-> "decode", addr |-> ip, data |-> ReadFromUDP(dgram),
                   rLen |-> IF Len(dgram) < PackageWords THEN Len(dgram) ELSE PackageWords,
                   rxTimestamp |-> clock, pkg |-> ZeroPackage, timer |-> NilTimer,
                   resBytes |-> <<>>])
    /\ UNCHANGED <<heap, timers, routes, resp, clock, tickerC, wire, routeSet, shutdown, codec, adding, updating>>

Serve(ip, dgram) == ServeLimit(MaxRequests, ip, dgram)

\* handleRequest: PackageFromBytes(data) and SetReceiveTimestamp(rxTimestamp);
\* the goroutine returns on an error.
handleRequestDecode(h) ==
    LET g      == handlers[h]
        parsed == PackageFromBytes(g.data)
    IN  /\ g.pc = "decode"
        /\ handlers' =
              IF ~parsed.ok THEN Exit(handlers, h)
              ELSE [handlers EXCEPT ![h] =
                      [g EXCEPT !.pkg = [parsed.pkg EXCEPT
                                            !.receiveTimestamp = g.rxTimestamp],
                                !.pc = "route"]]
        /\ log' = IF ~parsed.ok THEN Error(clock, "ntp package size to short") ELSE log
        /\ UNCHANGED <<heap, timers, routes, resp, clock, tickerC, wire, routeSet, shutdown, codec, adding, updating>>

\* A routing step that answers with the decoded package when no route is found.
handleRequestRouteNoDrop(h) ==
    LET g     == handlers[h]
        found == FindTimer(routes, g.addr)
    IN  /\ g.pc = "route"
        /\ handlers' =
              [handlers EXCEPT ![h] =
                  IF found.err
                  THEN [g EXCEPT !.resBytes = ToBytes(g.pkg), !.pc = "send"]
                  ELSE [g EXCEPT !.timer = found.Timer, !.pc = "reply"]]
        /\ UNCHANGED <<heap, timers, routes, resp, clock, tickerC, wire, routeSet, shutdown, codec, log, adding, updating>>

\* A routing step that ends every running goroutine when no route is found.
handleRequestRouteDropsAll(h) ==
    LET g     == handlers[h]
        found == FindTimer(routes, g.addr)
    IN  /\ g.pc = "route"
        /\ handlers' =
              IF found.err THEN <<>>
              ELSE [handlers EXCEPT ![h] =
                      [g EXCEPT !.timer = found.Timer, !.pc = "reply"]]
        /\ log' = IF found.err
                  THEN Error(clock, "no handler found in routing Table")
                  ELSE log
        /\ UNCHANGED <<heap, timers, routes, resp, clock, tickerC, wire, routeSet, shutdown, codec, adding, updating>>

\* handleRequest: FindTimer(addr.IP); the goroutine returns on an error.
handleRequestRoute(h) ==
    LET g     == handlers[h]
        found == FindTimer(routes, g.addr)
    IN  /\ g.pc = "route"
        /\ handlers' =
              IF found.err THEN Exit(handlers, h)
              ELSE [handlers EXCEPT ![h] =
                      [g EXCEPT !.timer = found.Timer, !.pc = "reply"]]
        /\ log' = IF found.err
                  THEN Error(clock, "no handler found in routing Table")
                  ELSE log
        /\ UNCHANGED <<heap, timers, routes, resp, clock, tickerC, wire, routeSet, shutdown, codec, adding, updating>>

\* A reply step that builds the reply in the timer's template, as
\* PackageFromTimer would with timer.Package() as its destination.
handleRequestReplyIntoTemplate(h) ==
    LET g   == handlers[h]
        pkg == PackageFromTimer(g.pkg, TimerPackage(heap, g.timer),
                                TimerGet(heap, clock, g.timer))
    IN  /\ g.pc = "reply"
        /\ handlers' = [handlers EXCEPT ![h] =
                          [g EXCEPT !.pkg = pkg, !.resBytes = ToBytes(pkg),
                                    !.pc = "send"]]
        /\ heap' = [heap EXCEPT ![g.timer.addr].NTPPackage = pkg]
        /\ UNCHANGED <<timers, routes, resp, clock, tickerC, wire, routeSet, shutdown, codec, log, adding, updating>>

\* handleRequest: PackageFromTimer(pkg, timer.Package(), timer) and ToBytes.
handleRequestReply(h) ==
    LET g   == handlers[h]
        pkg == PackageFromTimer(g.pkg, TimerPackage(heap, g.timer),
                                TimerGet(heap, clock, g.timer))
    IN  /\ g.pc = "reply"
        /\ handlers' = [handlers EXCEPT ![h] =
                          [g EXCEPT !.pkg = pkg, !.resBytes = ToBytes(pkg),
                                    !.pc = "send"]]
        /\ UNCHANGED <<heap, timers, routes, resp, clock, tickerC, wire, routeSet, shutdown, codec, log, adding, updating>>

\* handleRequest: conn.WriteToUDP(resBytes, addr), and the goroutine ends.
handleRequestSend(h) ==
    LET g == handlers[h]
    IN  /\ g.pc = "send"
        /\ wire' = [to |-> g.addr, data |-> g.resBytes]
        /\ handlers' = Exit(handlers, h)
        /\ UNCHANGED <<heap, timers, routes, resp, clock, tickerC, routeSet, shutdown, codec, log, adding, updating>>

\* handleRequest: conn.WriteToUDP(resBytes, addr) returns an error; it is
\* logged and the goroutine ends.
handleRequestSendError(h) ==
    LET g == handlers[h]
    IN  /\ g.pc = "send"
        /\ log' = Error(clock, "write udp")
        /\ handlers' = Exit(handlers, h)
        /\ UNCHANGED <<heap, timers, routes, resp, clock, tickerC, wire, routeSet, shutdown, codec, adding, updating>>

(***************************************************************************)
(* The wall clock, the ticker and the loop of main.                        *)
(***************************************************************************)
\* A second passes: the ticker puts a tick into its channel of capacity one
\* (a tick that finds the channel full is dropped).
\* limit bounds the seconds that pass.
TimePassesLimit(limit) ==
    /\ clock.lo < Clock0.lo + limit
    /\ clock' = AddSecond(clock)
    /\ tickerC' = TRUE
    /\ UNCHANGED <<heap, timers, routes, resp, handlers, wire, routeSet, shutdown, codec, log, adding, updating>>

TimePasses == TimePassesLimit(MaxTicks)

\* case <-timerTicker.C: timers.AllUpdate()
mainLoop ==
    /\ tickerC
    /\ tickerC' = FALSE
    /\ heap' = AllUpdate(heap, timers)
    /\ UNCHANGED <<timers, routes, resp, clock, handlers, wire, routeSet, shutdown, codec, log, adding, updating>>

\* AllUpdate seen statement by statement, beside the HTTP handlers that run
\* in their own goroutines without a lock.  case <-timerTicker.C: the loop
\* over c.entries starts.
AllUpdateBegin ==
    /\ tickerC
    /\ updating.pc = "idle"
    /\ tickerC' = FALSE
    /\ updating' = IF timers.entries = <<>> THEN NoUpdate
                   ELSE [pc |-> "read", i |-> 1, Time |-> ZeroTime]
    /\ UNCHANGED <<heap, timers, routes, resp, clock, handlers, wire, routeSet, shutdown, codec, log, adding>>

\* The loop of AllUpdate after the entry at position i.
AllUpdateNext(i) ==
    IF i < Len(timers.entries) THEN [pc |-> "read", i |-> i + 1, Time |-> ZeroTime]
    ELSE NoUpdate

\* ModifyTimer.Update: the read of timer.Time in timer.Time.Add(1 * time.Second);
\* Update of the other kinds does nothing.
UpdateRead ==
    /\ updating.pc = "read"
    /\ LET obj == heap[timers.entries[updating.i].Timer.addr]
       IN  updating' = IF obj.kind = "ModifyTimer"
                       THEN [updating EXCEPT !.pc = "write", !.Time = obj.Time]
                       ELSE AllUpdateNext(updating.i)
    /\ UNCHANGED <<heap, timers, routes, resp, clock, tickerC, handlers, wire, routeSet, shutdown, codec, log, adding>>

\* ModifyTimer.Update: the assignment to timer.Time of the instant read plus
\* one second.
UpdateWrite ==
    /\ updating.pc = "write"
    /\ heap' = [heap EXCEPT ![timers.entries[updating.i].Timer.addr].Time =
                    AddSecond(updating.Time)]
    /\ updating' = AllUpdateNext(updating.i)
    /\ UNCHANGED <<timers, routes, resp, clock, tickerC, handlers, wire, routeSet, shutdown, codec, log, adding>>

(***************************************************************************)
(* Shutdown: the goroutine of main that waits for SIGINT, and the web      *)
(* server's Serve.                                                         *)
(***************************************************************************)
\* <-sigint, then webServer.Shutdown(ctx) is called: http.Server.Shutdown
\* closes the listener first, so ListenAndServe returns ErrServerClosed.
Interrupt ==
    /\ ~shutdown.exited
    /\ ~shutdown.sigint
    /\ shutdown' = [shutdown EXCEPT !.sigint = TRUE, !.listening = FALSE]
    /\ UNCHANGED <<heap, timers, routes, resp, clock, tickerC, handlers, wire, routeSet, codec, log, adding, updating>>

\* Shutdown returns, drained or at the 10 second deadline (an error is only
\* logged), and close(idleConnectionsClosed) follows.
ShutdownReturns ==
    /\ ~shutdown.exited
    /\ shutdown.sigint
    /\ ~shutdown.idleConnectionsClosed
    /\ shutdown' = [shutdown EXCEPT !.idleConnectionsClosed = TRUE]
    /\ UNCHANGED <<heap, timers, routes, resp, clock, tickerC, handlers, wire, routeSet, codec, log, adding, updating>>

\* web.Server.Serve: ListenAndServe has returned a non-nil error, and
\* log.Fatal(err) ends the process with os.Exit(1).
webServe ==
    /\ ~shutdown.exited
    /\ ~shutdown.listening
    /\ shutdown' = [shutdown EXCEPT !.exited = TRUE]
    /\ UNCHANGED <<heap, timers, routes, resp, clock, tickerC, handlers, wire, routeSet, codec, log, adding, updating>>

(***************************************************************************)
(* The package on its own: the setters of a package, ToBytes and           *)
(* PackageFromBytes, called one at a time as the package tests do.         *)
(***************************************************************************)
\* The arguments given to the header setters, in and out of range.
HeaderValues ==
    { U32Of(0), U32Of(1), U32Of(3), U32Of(255), U32Of(256), <<65535, 65535>> }

\* 1900-01-01T00:00:00Z = -2208988800 s and 2038-01-01T00:00:00Z = 2145916800 s
NtpEpoch == Instant(-33707, 33152, 0)
T2038 == Instant(32744, 6016, 0)

\* The instants given to the timestamp setters.
TestInstants == {NtpEpoch, T2038}

Others == <<heap, timers, routes, resp, clock, tickerC, handlers, wire, routeSet,
            shutdown, log, adding, updating>>

callSetLeap(value) ==
    /\ codec' = [codec EXCEPT !.pkg = SetLeap(codec.pkg, value)]
    /\ UNCHANGED Others

callSetVersion(value) ==
    /\ codec' = [codec EXCEPT !.pkg = SetVersion(codec.pkg, value)]
    /\ UNCHANGED Others

callSetMode(value) ==
    /\ codec' = [codec EXCEPT !.pkg = SetMode(codec.pkg, value)]
    /\ UNCHANGED Others

callSetStratum(value) ==
    /\ codec' = [codec EXCEPT !.pkg = SetStratum(codec.pkg, value)]
    /\ UNCHANGED Others

callSetPoll(value) ==
    /\ codec' = [codec EXCEPT !.pkg = SetPoll(codec.pkg, value)]
    /\ UNCHANGED Others

callSetPrecision(value) ==
    /\ codec' = [codec EXCEPT !.pkg = SetPrecision(codec.pkg, value)]
    /\ UNCHANGED Others

callSetReferenceTimestamp(value) ==
    /\ codec' = [codec EXCEPT !.pkg.referenceTimestamp = value]
    /\ UNCHANGED Others

callSetOriginateTimestamp(value) ==
    /\ codec' = [codec EXCEPT !.pkg.originateTimestamp = value]
    /\ UNCHANGED Others

callSetReceiveTimestamp(value) ==
    /\ codec' = [codec EXCEPT !.pkg.receiveTimestamp = value]
    /\ UNCHANGED Others

callSetTransmitTimestamp(value) ==
    /\ codec' = [codec EXCEPT !.pkg.transmitTimestamp = value]
    /\ UNCHANGED Others

\* data, err := pkg.ToBytes()
callToBytes ==
    /\ codec' = [codec EXCEPT !.data = ToBytes(codec.pkg), !.err = FALSE]
    /\ UNCHANGED Others

\* The bytes on their way: the last two are lost, or two or four follow.
Shorten ==
    /\ codec.data # <<>>
    /\ ByteLen(codec.data) >= NTP_PACKAGE_SIZE
    /\ LET n    == Len(codec.data)
           last == codec.data[n]
       IN  codec' = [codec EXCEPT !.data =
                        IF Len(last) = 1 THEN SubSeq(codec.data, 1, n - 1)
                        ELSE [codec.data EXCEPT ![n] = <<last[1]>>]]
    /\ UNCHANGED Others

Lengthen(tail) ==
    /\ codec.data # <<>>
    /\ ByteLen(codec.data) = NTP_PACKAGE_SIZE
    /\ codec' = [codec EXCEPT !.data = Append(codec.data, tail)]
    /\ UNCHANGED Others

\* pkg, err := PackageFromBytes(data): the package is replaced on success.
callPackageFromBytes ==
    /\ codec.data # <<>>
    /\ LET parsed == PackageFromBytes(codec.data)
       IN  codec' = [codec EXCEPT !.pkg = IF parsed.ok THEN parsed.pkg ELSE @,
                                  !.err = ~parsed.ok]
    /\ UNCHANGED Others

vars == <<heap, timers, routes, resp, clock, tickerC, handlers, wire, routeSet,
          shutdown, codec, log, adding, updating>>

\* The subnets drawn when the routing is explored: all but 10.0.0.0/8.
RouteSubnets == {s \in Subnets : s.addr # <<10, 0, 0, 0>> \/ s.ones = 33}

\* The route endpoint, with the creation of the timers its routes point to.
NextRoutes ==
    \/ newModifyTimer(MaxTimers)
    \/ \E timerId \in TimerIds, subnet \in RouteSubnets : newRoute(timerId, subnet)
    \/ \E routeId \in RouteIds : deleteRoute(routeId)
    \/ \E routeId \in RouteIds, timerId \in TimerIds : updateRoute(routeId, timerId)
    \/ \E timerId \in TimerIds : updateDefaultRoute(timerId)

SpecRoutes == Init /\ [][NextRoutes]_vars

\* The subnets drawn when timers are deleted under routes: 10.0.0.0/8 and
\* the unparsable one.
ControlSubnets == {s \in Subnets : s.addr = <<10, 0, 0, 0>>}

\* The control plane with the deletion of timers.
NextControl ==
    \/ newSystemTimer(MaxTimers)
    \/ newModifyTimer(MaxTimers)
    \/ \E id \in TimerIds : deleteTimer(id)
    \/ \E timerId \in TimerIds, subnet \in ControlSubnets : newRoute(timerId, subnet)
    \/ \E routeId \in RouteIds : deleteRoute(routeId)
    \/ \E routeId \in RouteIds, timerId \in TimerIds : updateRoute(routeId, timerId)
    \/ \E timerId \in TimerIds : updateDefaultRoute(timerId)

SpecControl == Init /\ [][NextControl]_vars

\* The timer endpoint alone.
AddIds == 0..MaxAdds

NextTimers ==
    \/ newNtpTimer(MaxAdds)
    \/ newSystemTimer(MaxAdds)
    \/ newModifyTimer(MaxAdds)
    \/ \E id \in AddIds : deleteTimer(id)
    \/ \E id \in AddIds, body \in SetBodies : updateTimer(id, body)

SpecTimers == Init /\ [][NextTimers]_vars

\* The NTP server with one settable timer, the route 10.0.0.0/8, the clock
\* and the ticker.
NextServe ==
    \/ newModifyTimer(2)
    \/ \E id \in {0, 1}, body \in SetBodies : updateTimer(id, body)
    \/ \E timerId \in {0, 1}, subnet \in ControlSubnets : newRoute(timerId, subnet)
    \/ \E ip \in ServeIPs, dgram \in Datagrams : Serve(ip, dgram)
    \/ \E h \in 1..Len(handlers) : handleRequestDecode(h)
    \/ \E h \in 1..Len(handlers) : handleRequestRoute(h)
    \/ \E h \in 1..Len(handlers) : handleRequestReply(h)
    \/ \E h \in 1..Len(handlers) : handleRequestSend(h)
    \/ TimePasses
    \/ mainLoop

SpecServe == Init /\ [][NextServe]_vars

\* The NTP server with goroutines running side by side, one settable timer
\* and the route 10.0.0.0/8 to it; the clients are 10.0.0.5 and 127.0.0.1.
HandlerIPs == { <<10, 0, 0, 5>>, IPv4(127, 0, 0, 1) }

NextHandlers ==
    \/ newModifyTimer(2)
    \/ newRoute(1, [addr |-> <<10, 0, 0, 0>>, ones |-> 8])
    \/ \E ip \in HandlerIPs, dgram \in Datagrams : ServeLimit(MaxHandlers, ip, dgram)
    \/ \E h \in 1..Len(handlers) : handleRequestDecode(h)
    \/ \E h \in 1..Len(handlers) : handleRequestRoute(h)
    \/ \E h \in 1..Len(handlers) : handleRequestReply(h)
    \/ \E h \in 1..Len(handlers) : handleRequestSend(h)
    \/ TimePassesLimit(MaxHandlerTicks)

SpecHandlers == Init /\ [][NextHandlers]_vars

\* The NTP server and its failures: reads without a remote address, clients
\* without a route (2001:db8::1), writes that fail, beside the client
\* 10.0.0.5 that the boot route 0.0.0.0/0 serves.
DropIPs == { <<>>, <<10, 0, 0, 5>>,
             <<32, 1, 13, 184, 0, 0, 0, 0, 0, 0, 0, 0, 0, 0, 0, 1>> }

NextDrops ==
    \/ \E ip \in DropIPs, dgram \in Datagrams : ServeLimit(MaxHandlers, ip, dgram)
    \/ \E h \in 1..Len(handlers) : handleRequestDecode(h)
    \/ \E h \in 1..Len(handlers) : handleRequestRoute(h)
    \/ \E h \in 1..Len(handlers) : handleRequestReply(h)
    \/ \E h \in 1..Len(handlers) : handleRequestSend(h)
    \/ \E h \in 1..Len(handlers) : handleRequestSendError(h)
    \/ TimePassesLimit(MaxHandlerTicks)

SpecDrops == Init /\ [][NextDrops]_vars

\* Timers created by HTTP handlers that run at the same time.
NextAdds ==
    \/ \E kind \in {"SystemTimer", "ModifyTimer"} : newTimerBegin(kind, MaxAdds)
    \/ \E a \in 1..Len(adding) : AddIncrement(a)
    \/ \E a \in 1..Len(adding) : AddAppend(a)

SpecAdds == Init /\ [][NextAdds]_vars

\* One timer more than the boot timer, set and listed while main runs AllUpdate.
NextSet ==
    \/ newModifyTimer(2)
    \/ newSystemTimer(2)
    \/ getAllTimers
    \/ \E id \in 0..2, body \in SetBodies : updateTimer(id, body)
    \/ TimePassesLimit(MaxHandlerTicks)
    \/ AllUpdateBegin
    \/ UpdateRead
    \/ UpdateWrite

SpecSet == Init /\ [][NextSet]_vars

\* The default routes: an operator adds routes with a loopback, a link-local
\* and an ordinary prefix, lists and retargets the default routes, deletes.
DefaultSubnets ==
    { [addr |-> <<127, 0, 0, 1>>, ones |-> 32],
      [addr |-> <<169, 254, 0, 0>>, ones |-> 16],
      [addr |-> <<192, 168, 1, 0>>, ones |-> 24] }

NextDefaults ==
    \/ newModifyTimer(2)
    \/ \E timerId \in 0..1, subnet \in DefaultSubnets : newRoute(timerId, subnet)
    \/ \E routeId \in RouteIds : deleteRoute(routeId)
    \/ \E timerId \in 0..2 : updateDefaultRoute(timerId)
    \/ getDefaultRoute

SpecDefaults == Init /\ [][NextDefaults]_vars

\* The ticker beside the timer endpoint: timers are created, set and
\* deleted while the seconds pass and main calls AllUpdate.
NextTicks ==
    \/ newSystemTimer(MaxTimers)
    \/ newModifyTimer(MaxTimers)
    \/ \E id \in 1..2 : deleteTimer(id)
    \/ \E id \in 0..2, body \in SetBodies : updateTimer(id, body)
    \/ TimePassesLimit(MaxUpdates)
    \/ mainLoop

SpecTicks == Init /\ [][NextTicks]_vars

\* A route update running beside the NTP server: two settable timers, the
\* two assignments of RoutingTable.Set, and one handleRequest goroutine.
NextRace ==
    \/ newModifyTimer(MaxTimers)
    \/ \E routeId \in 0..1, timerId \in 0..2 : updateRouteBegin(routeId, timerId)
    \/ updateRouteEnd
    \/ \E ip \in HandlerIPs, dgram \in Datagrams : Serve(ip, dgram)
    \/ \E h \in 1..Len(handlers) : handleRequestDecode(h)
    \/ \E h \in 1..Len(handlers) : handleRequestRoute(h)
    \/ \E h \in 1..Len(handlers) : handleRequestReply(h)
    \/ \E h \in 1..Len(handlers) : handleRequestSend(h)

SpecRace == Init /\ [][NextRace]_vars

\* The way down: SIGINT, the drain of the web server and the end of the
\* process, beside the ticker, the control plane and the NTP server. The
\* control plane takes requests while the web server listens; nothing runs
\* after os.Exit. The select of main with idleConnectionsClosed ready runs
\* `break`, which leaves the select and not the for loop: a step that
\* changes no state.
NextShutdown ==
    \/ ~shutdown.exited /\ shutdown.listening /\ newModifyTimer(2)
    \/ ~shutdown.exited /\ (\E ip \in HandlerIPs, dgram \in Datagrams : Serve(ip, dgram))
    \/ ~shutdown.exited /\ (\E h \in 1..Len(handlers) : handleRequestDecode(h))
    \/ ~shutdown.exited /\ (\E h \in 1..Len(handlers) : handleRequestRoute(h))
    \/ ~shutdown.exited /\ (\E h \in 1..Len(handlers) : handleRequestReply(h))
    \/ ~shutdown.exited /\ (\E h \in 1..Len(handlers) : handleRequestSend(h))
    \/ TimePasses
    \/ ~shutdown.exited /\ mainLoop
    \/ Interrupt
    \/ ShutdownReturns
    \/ webServe

SpecShutdown == Init /\ [][NextShutdown]_vars

\* The header setters of one package.
NextHeader ==
    \/ \E value \in HeaderValues : callSetLeap(value)
    \/ \E value \in HeaderValues : callSetVersion(value)
    \/ \E value \in HeaderValues : callSetMode(value)
    \/ \E value \in HeaderValues : callSetStratum(value)
    \/ \E value \in HeaderValues : callSetPoll(value)
    \/ \E value \in HeaderValues : callSetPrecision(value)

SpecHeader == Init /\ [][NextHeader]_vars

\* The codec of one package: fields are set, the package is encoded, the
\* bytes lose or gain a tail, and they are decoded.
NextCodec ==
    \/ callSetMode(NTP_MODE_SERVER)
    \/ callSetReferenceTimestamp(T2038)
    \/ callSetOriginateTimestamp(T2038)
    \/ callSetReceiveTimestamp(NtpEpoch)
    \/ \E value \in TestInstants : callSetTransmitTimestamp(value)
    \/ callToBytes
    \/ Shorten
    \/ \E tail \in {<<65535>>, <<0, 0>>} : Lengthen(tail)
    \/ callPackageFromBytes

SpecCodec == Init /\ [][NextCodec]_vars

\* The instants encoded when the time conversion is explored: 1900, 1970,
\* 2000, 2038, the zero time.Time, 2000 and a quarter second, and the last
\* second before the low half of the Unix seconds wraps.
UnixEpoch == Instant(0, 0, 0)

StampInstants ==
    { NtpEpoch, UnixEpoch, T2000, T2038, ZeroTime,
      Instant(14445, 17280, 250000000), Instant(14445, 65535, 0) }

\* The encoding of the timestamps of one package.
NextStamp ==
    \/ \E value \in StampInstants : callSetReferenceTimestamp(value)
    \/ \E value \in StampInstants : callSetTransmitTimestamp(value)
    \/ callToBytes

SpecStamp == Init /\ [][NextStamp]_vars

\* The list of timers beside their creation and deletion.
NextList ==
    \/ newNtpTimer(MaxTimers)
    \/ newSystemTimer(MaxTimers)
    \/ newModifyTimer(MaxTimers)
    \/ \E id \in TimerIds : deleteTimer(id)
    \/ getAllTimers

SpecList == Init /\ [][NextList]_vars

\* The whole program: the control plane, the NTP server and the loop of main.
Next ==
    \/ newNtpTimer(MaxTimers)
    \/ newSystemTimer(MaxTimers)
    \/ newModifyTimer(MaxTimers)
    \/ \E id \in TimerIds : deleteTimer(id)
    \/ getAllTimers
    \/ \E id \in TimerIds, body \in SetBodies : updateTimer(id, body)
    \/ \E timerId \in TimerIds, subnet \in Subnets : newRoute(timerId, subnet)
    \/ \E routeId \in RouteIds : deleteRoute(routeId)
    \/ \E routeId \in RouteIds, timerId \in TimerIds : updateRoute(routeId, timerId)
    \/ \E routeId \in RouteIds, timerId \in TimerIds : updateRouteBegin(routeId, timerId)
    \/ updateRouteEnd
    \/ \E timerId \in TimerIds : updateDefaultRoute(timerId)
    \/ \E ip \in ServeIPs, dgram \in Datagrams : Serve(ip, dgram)
    \/ \E h \in 1..Len(handlers) : handleRequestDecode(h)
    \/ \E h \in 1..Len(handlers) : handleRequestRoute(h)
    \/ \E h \in 1..Len(handlers) : handleRequestReply(h)
    \/ \E h \in 1..Len(handlers) : handleRequestSend(h)
    \/ TimePasses
    \/ mainLoop
    \/ Interrupt
    \/ ShutdownReturns
    \/ webServe
    \/ \E value \in HeaderValues : callSetLeap(value)
    \/ \E value \in HeaderValues : callSetVersion(value)
    \/ \E value \in HeaderValues : callSetMode(value)
    \/ \E value \in HeaderValues : callSetStratum(value)
    \/ \E value \in HeaderValues : callSetPoll(value)
    \/ \E value \in HeaderValues : callSetPrecision(value)
    \/ \E value \in TestInstants : callSetReferenceTimestamp(value)
    \/ \E value \in TestInstants : callSetOriginateTimestamp(value)
    \/ \E value \in TestInstants : callSetReceiveTimestamp(value)
    \/ \E value \in TestInstants : callSetTransmitTimestamp(value)
    \/ callToBytes
    \/ Shorten
    \/ \E tail \in {<<65535>>, <<0, 0>>} : Lengthen(tail)
    \/ callPackageFromBytes

Spec == Init /\ [][Next]_vars

(***************************************************************************)
(* Client addresses the lookups are checked on: the seven of TestFindTimer *)
(* in the 16 byte form net.ParseIP gives, 192.168.1.10 and 10.0.0.5 in the *)
(* 4 byte form, 10.0.0.5 in the 16 byte form, and 2001:db8::1.             *)
(***************************************************************************)
IPv6Loopback == <<0, 0, 0, 0, 0, 0, 0, 0, 0, 0, 0, 0, 0, 0, 0, 1>>
IPv6Doc      == <<32, 1, 13, 184, 0, 0, 0, 0, 0, 0, 0, 0, 0, 0, 0, 1>>

ClientIPs ==
    { IPv4(192, 168, 1, 10), IPv4(192, 168, 1, 11), IPv4(192, 168, 2, 11),
      IPv4(192, 168, 2, 10), IPv4(0, 0, 0, 0), IPv4(127, 0, 0, 1), IPv6Loopback,
      <<192, 168, 1, 10>>, <<10, 0, 0, 5>>, IPv4(10, 0, 0, 5), IPv6Doc }

SetMax(S) == CHOOSE x \in S : \A y \in S : y <= x

R1 == ParseCIDR([addr |-> <<192, 168, 1, 0>>, ones |-> 24]).ipNet
R2 == ParseCIDR([addr |-> <<192, 168, 2, 11>>, ones |-> 32]).ipNet

\* The table of TestFindTimer: the three boot routes, then R1, then R2, the
\* boot routes bound to one timer.
TestTable ==
    /\ Len(routes.entries) = 5
    /\ routes.entries[1].IPNet = defaultRoute
    /\ routes.entries[2].IPNet = ipv4Route
    /\ routes.entries[3].IPNet = ipv6Route
    /\ routes.entries[4].IPNet = R1
    /\ routes.entries[5].IPNet = R2
    /\ routes.entries[2].Timer = routes.entries[1].Timer
    /\ routes.entries[3].Timer = routes.entries[1].Timer

\* ip & mask == ip_ref & mask
PrefixMatches(entry, ip) ==
    /\ Mask(ip, entry.IPNet.Mask) # <<>>
    /\ Equal(Mask(ip, entry.IPNet.Mask), Mask(entry.IPNet.IP, entry.IPNet.Mask))

\* C1: for every client address that some entry's prefix matches, FindTimer
\* returns the timer of the last (most recently inserted) matching entry; on
\* the defaults followed by R1 = 192.168.1.0/24 and R2 = 192.168.2.11/32,
\* 192.168.1.10 and 192.168.1.11 resolve to R1's timer, 192.168.2.11 to R2's,
\* and 192.168.2.10, 0.0.0.0, 127.0.0.1 and ::1 to the default timer.
C1_FindTimerMostRecentMatch ==
    /\ \A ip \in ClientIPs :
          LET m == {i \in 1..Len(routes.entries) : PrefixMatches(routes.entries[i], ip)}
          IN  m # {} =>
                FindTimer(routes, ip) =
                    [err |-> FALSE, Timer |-> routes.entries[SetMax(m)].Timer]
    /\ TestTable =>
          /\ FindTimer(routes, IPv4(192, 168, 1, 10)).Timer = routes.entries[4].Timer
          /\ FindTimer(routes, IPv4(192, 168, 1, 11)).Timer = routes.entries[4].Timer
          /\ FindTimer(routes, IPv4(192, 168, 2, 11)).Timer = routes.entries[5].Timer
          /\ \A ip \in {IPv4(192, 168, 2, 10), IPv4(0, 0, 0, 0),
                        IPv4(127, 0, 0, 1), IPv6Loopback} :
                FindTimer(routes, ip) =
                    [err |-> FALSE, Timer |-> routes.entries[1].Timer]

\* The table of TestFindTimer with three different timers behind the
\* defaults, R1 and R2, where 192.168.2.11 resolves to R2's.
C1_Witness ==
    /\ TestTable
    /\ routes.entries[4].Timer # routes.entries[1].Timer
    /\ routes.entries[5].Timer # routes.entries[1].Timer
    /\ routes.entries[5].Timer # routes.entries[4].Timer
    /\ FindTimer(routes, IPv4(192, 168, 2, 11)).Timer = routes.entries[5].Timer
    /\ FindTimer(routes, IPv4(192, 168, 1, 10)).Timer = routes.entries[4].Timer

\* C2: in every reachable routing table FindTimer returns a timer and never
\* the no-route error, for every client address, IPv4 or IPv6.
C2_NoRouteUnreachable ==
    \A ip \in ClientIPs : ~FindTimer(routes, ip).err

\* The three boot entries are the first three of the table, under ids 0, 1, 2.
BootRoutesPresent ==
    /\ Len(routes.entries) >= 3
    /\ routes.entries[1].Id = 0 /\ routes.entries[1].IPNet = defaultRoute
    /\ routes.entries[2].Id = 1 /\ routes.entries[2].IPNet = ipv4Route
    /\ routes.entries[3].Id = 2 /\ routes.entries[3].IPNet = ipv6Route

\* C3: the three boot entries 0.0.0.0/0, 127.0.0.0/24 and ::/120 stay in the
\* table under their ids 0, 1, 2, and a deleteRoute on one of these ids
\* answers StatusForbidden and leaves the table unchanged.
C3_DefaultRoutesStay ==
    /\ []BootRoutesPresent
    /\ [][\A routeId \in {0, 1, 2} :
            deleteRoute(routeId) =>
                /\ resp'.status = "StatusForbidden"
                /\ routes' = routes]_vars

\* A deleteRoute has just been refused while only the boot routes exist.
C3_Witness ==
    /\ resp.status = "StatusForbidden"
    /\ Len(routes.entries) = 3
    /\ BootRoutesPresent

\* C4: updateRoute on a boot route's id with the id of a timer in the
\* collection answers StatusOK and binds the entry to that timer, so every
\* client address whose lookup resolves through the entry gets that timer; an
\* entry's timer changes in no step but a successful updateRoute or
\* updateDefaultRoute.
C4_RetargetDefaultRoute ==
    /\ [][\A routeId \in {0, 1, 2}, timerId \in TimerIds :
            (~IsNil(Get(timers, timerId).Timer) /\ updateRoute(routeId, timerId)) =>
                /\ resp'.status = "StatusOK"
                /\ RouteGet(routes', routeId).entry.TimerId = timerId
                /\ \A ip \in ClientIPs :
                      FindIndex(routes', ip) = routeId + 1 =>
                          FindTimer(routes', ip) =
                              [err |-> FALSE, Timer |-> Get(timers, timerId).Timer]]_vars
    /\ [][\/ routes' = routes
          \/ \A i \in 1..Len(routes.entries), j \in 1..Len(routes'.entries) :
                (/\ routes'.entries[j].Id = routes.entries[i].Id
                 /\ routes'.entries[j] # routes.entries[i]) =>
                    resp'.message \in {"route updated successful",
                                       "default route update success"}]_vars

\* The boot route 0.0.0.0/0 has been retargeted by updateRoute and
\* 192.168.2.10 is now answered by the new timer, not the boot timer.
C4_Witness ==
    /\ resp.message = "route updated successful"
    /\ routes.entries[1].TimerId # 0
    /\ routes.entries[1].Timer = Get(timers, routes.entries[1].TimerId).Timer
    /\ FindTimer(routes, IPv4(192, 168, 2, 10)).Timer = routes.entries[1].Timer
    /\ routes.entries[1].Timer # Ptr(1)

\* The ids of the collection's entries, in the order of All().
EntryIds == [i \in 1..Len(timers.entries) |-> timers.entries[i].Id]

\* C5: every timer ever added is one object of the heap, so the k-th Add is
\* the one made when k objects exist; it returns id k, which is greater than
\* every id in the collection, the new entry carries it, and the ids of the
\* entries increase strictly (deleting t1 of t0, t1, t2 makes the next id 3).
C5_AddReturnsNextId ==
    /\ [](/\ timers.idx = Len(heap)
          /\ \A i, j \in 1..Len(timers.entries) :
                i < j => timers.entries[i].Id < timers.entries[j].Id)
    /\ [][Len(heap') > Len(heap) =>
            /\ resp'.status = "StatusCreated"
            /\ resp'.Id = Len(heap)
            /\ IsNil(Get(timers, resp'.Id).Timer)
            /\ Get(timers', Len(heap)) = [Id |-> Len(heap), Timer |-> Ptr(Len(heap'))]
            /\ \A i \in 1..Len(timers.entries) :
                  timers.entries[i].Id < resp'.Id]_vars

\* t0, t1, t2 were added, t1 was deleted, and the Add after it returned 3.
C5_Witness ==
    /\ EntryIds = <<0, 2, 3>>
    /\ resp.status = "StatusCreated"
    /\ resp.Id = 3

\* C6: deleteTimer(d) of a timer in the collection leaves Get(d) the nil
\* entry, makes Length one less, keeps Get(i) of every other id, and keeps
\* the remaining entries in their order in All().
C6_DeleteRemovesExactlyOne ==
    [][\A d \in AddIds :
        (~IsNil(Get(timers, d).Timer) /\ deleteTimer(d)) =>
            /\ resp'.status = "StatusAccepted"
            /\ IsNil(Get(timers', d).Timer)
            /\ Length(timers') = Length(timers) - 1
            /\ \A i \in AddIds \ {d} : Get(timers', i) = Get(timers, i)
            /\ All(timers') = SelectSeq(All(timers), LAMBDA e : e.Id # d)]_vars

\* Of t0, t1, t2, t3 the first has just been deleted; the others keep their
\* order.
C6_Witness ==
    /\ EntryIds = <<1, 2, 3>>
    /\ resp.status = "StatusAccepted"
    /\ Len(heap) = 4

\* A route's entry refers to the timer the collection holds under id.
Referenced(id) ==
    /\ ~IsNil(Get(timers, id).Timer)
    /\ \E i \in 1..Len(routes.entries) :
          /\ routes.entries[i].TimerId = id
          /\ routes.entries[i].Timer = Get(timers, id).Timer

\* C7: deleteTimer(id) of a timer that a route refers to is refused and
\* leaves the collection and the routing table as they are.
C7_DeleteReferencedTimerRefused ==
    [][\A id \in TimerIds :
        (Referenced(id) /\ deleteTimer(id)) =>
            /\ resp'.status # "StatusAccepted"
            /\ timers' = timers
            /\ routes' = routes]_vars

\* C8: every entry of the routing table names, by TimerId, a timer of the
\* collection, and its Timer is the one the collection holds under that id.
C8_RoutesNameLiveTimers ==
    \A i \in 1..Len(routes.entries) :
        /\ ~IsNil(Get(timers, routes.entries[i].TimerId).Timer)
        /\ Get(timers, routes.entries[i].TimerId).Timer = routes.entries[i].Timer

\* C9: the originate timestamp of a reply written to the socket is the
\* transmit timestamp of the request it answers (words 7, 8 and 11, 12 of
\* the datagrams).
C9_OriginateIsRequestTransmit ==
    [][\A h \in 1..Len(handlers) :
        handleRequestSend(h) =>
            /\ wire'.data[7] = handlers[h].data[11]
            /\ wire'.data[8] = handlers[h].data[12]]_vars

\* C10: the transmit timestamp of a reply is Get() of the timer found for the
\* client's address, taken when the reply is built.
C10_TransmitIsTimerNow ==
    [][\A h \in 1..Len(handlers) :
        handleRequestReply(h) =>
            LET now == timestampToNtpSeconds(TimerGet(heap, clock, handlers[h].timer))
            IN  /\ handlers'[h].resBytes[11] = now.secs
                /\ handlers'[h].resBytes[12] = now.fracs]_vars

\* The words of an instant in a datagram.
Words(t) == <<timestampToNtpSeconds(t).secs, timestampToNtpSeconds(t).fracs>>

\* C11: Serve hands the clock it read right after the socket read to the
\* goroutine, the goroutine keeps it, and the receive timestamp of the reply
\* written to the socket (words 9, 10) is that instant.
C11_ReceiveIsReadInstant ==
    /\ [][\A ip \in ServeIPs, dgram \in Datagrams :
            Serve(ip, dgram) =>
                handlers'[Len(handlers')].rxTimestamp = clock]_vars
    /\ [][\A h \in 1..Len(handlers) :
            Len(handlers') = Len(handlers) =>
                handlers'[h].rxTimestamp = handlers[h].rxTimestamp]_vars
    /\ [][\A h \in 1..Len(handlers) :
            handleRequestSend(h) =>
                <<wire'.data[9], wire'.data[10]>> = Words(handlers[h].rxTimestamp)]_vars

\* A reply is on the wire whose receive timestamp is the boot instant of the
\* clock, while the clock has moved on and the reply's originate timestamp,
\* the timer's time, is another instant.
C11_Witness ==
    /\ wire.data # <<>>
    /\ <<wire.data[9], wire.data[10]>> = Words(Clock0)
    /\ clock # Clock0
    /\ <<wire.data[7], wire.data[8]>> # Words(Clock0)

\* C12: the reply built for a request carries the leap, version, mode,
\* stratum, poll, precision, root delay, root dispersion and reference clock
\* id of the template of the timer found for it, and building it leaves the
\* timers, their templates included, unchanged.
C12_ReplyCarriesTemplate ==
    [][\A h \in 1..Len(handlers) :
        handleRequestReply(h) =>
            LET tmpl  == TimerPackage(heap, handlers[h].timer)
                reply == handlers'[h].pkg
            IN  /\ GetLeap(reply) = GetLeap(tmpl)
                /\ GetVersion(reply) = GetVersion(tmpl)
                /\ GetMode(reply) = GetMode(tmpl)
                /\ GetStratum(reply) = GetStratum(tmpl)
                /\ GetPoll(reply) = GetPoll(tmpl)
                /\ GetPrecision(reply) = GetPrecision(tmpl)
                /\ handlers'[h].resBytes[1] = tmpl.header
                /\ handlers'[h].resBytes[2] = tmpl.rootDelay
                /\ handlers'[h].resBytes[3] = tmpl.rootDispersion
                /\ handlers'[h].resBytes[4] = tmpl.referenceClockId
                /\ heap' = heap]_vars

\* C12 without the reference clock id: the header fields, the root delay and
\* the root dispersion of the reply are the template's, whatever the request
\* carried, and the timers are unchanged.
C12_HeaderCarriesTemplate ==
    [][\A h \in 1..Len(handlers) :
        handleRequestReply(h) =>
            LET tmpl == TimerPackage(heap, handlers[h].timer)
            IN  /\ handlers'[h].resBytes[1] = tmpl.header
                /\ handlers'[h].resBytes[2] = tmpl.rootDelay
                /\ handlers'[h].resBytes[3] = tmpl.rootDispersion
                /\ GetMode(handlers'[h].pkg) = NTP_MODE_SERVER
                /\ GetVersion(handlers'[h].pkg) = NTP_VN_V3
                /\ GetStratum(handlers'[h].pkg) = U32Of(1)
                /\ heap' = heap]_vars

\* C13: a datagram shorter than 48 bytes (12 words) produces no reply: no
\* goroutine started for one writes to the socket.
C13_ShortDatagramNoReply ==
    [][\A h \in 1..Len(handlers) :
        handleRequestSend(h) => handlers[h].rLen >= PackageWords]_vars

\* The steps a goroutine may take: decode (RECEIVED) to route (DECODED) to
\* reply (ROUTED) to send (RESPONDED).
PcOrder == {<<"decode", "route">>, <<"route", "reply">>, <<"reply", "send">>}

OwnReply(g) ==
    ToBytes(PackageFromTimer(
        [PackageFromBytes(g.data).pkg EXCEPT !.receiveTimestamp = g.rxTimestamp],
        TimerPackage(heap, g.timer), TimerGet(heap, clock, g.timer)))

\* C15: with goroutines running side by side, a datagram read starts a new
\* goroutine and leaves the running ones as they are; a step of one
\* goroutine changes no other and keeps its own datagram, address and
\* receive timestamp; the timer is the one found for its own address, the
\* reply is built from its own datagram, receive timestamp and timer, and is
\* written to its own address.
C15_NoCrossWiring ==
    /\ [][Len(handlers') > Len(handlers) =>
            SubSeq(handlers', 1, Len(handlers)) = handlers]_vars
    /\ [][\A h \in 1..Len(handlers) :
            (handleRequestDecode(h) \/ handleRequestRoute(h) \/ handleRequestReply(h)) =>
                \/ handlers' = Exit(handlers, h)
                \/ /\ handlers' = [handlers EXCEPT ![h] = handlers'[h]]
                   /\ handlers'[h].data = handlers[h].data
                   /\ handlers'[h].addr = handlers[h].addr
                   /\ handlers'[h].rxTimestamp = handlers[h].rxTimestamp]_vars
    /\ [][\A h \in 1..Len(handlers) :
            (handleRequestRoute(h) /\ Len(handlers') = Len(handlers)) =>
                handlers'[h].timer = FindTimer(routes, handlers[h].addr).Timer]_vars
    /\ [][\A h \in 1..Len(handlers) :
            handleRequestReply(h) =>
                handlers'[h].resBytes = OwnReply(handlers[h])]_vars
    /\ [][\A h \in 1..Len(handlers) :
            handleRequestSend(h) =>
                /\ wire' = [to |-> handlers[h].addr, data |-> handlers[h].resBytes]
                /\ handlers' = Exit(handlers, h)]_vars

\* Two goroutines are about to write: one for 127.0.0.1 with the boot timer,
\* one for 10.0.0.5 with the settable timer, with different datagrams and
\* receive timestamps.
C15_Witness ==
    /\ Len(handlers) = 2
    /\ handlers[1].pc = "send" /\ handlers[2].pc = "send"
    /\ handlers[1].addr = IPv4(127, 0, 0, 1) /\ handlers[1].timer = Ptr(1)
    /\ handlers[2].addr = <<10, 0, 0, 5>> /\ handlers[2].timer = Ptr(2)
    /\ handlers[1].data # handlers[2].data
    /\ handlers[1].rxTimestamp # handlers[2].rxTimestamp
    /\ handlers[1].resBytes # handlers[2].resBytes

\* C16: the read loop never waits for a goroutine: while fewer goroutines
\* run than the bound explored, the next datagram can be read whatever the
\* running goroutines have or have not done, so a later datagram can be
\* answered before an earlier one.
C16_ReadLoopNeverWaits ==
    Len(handlers) < MaxHandlers =>
        ENABLED (\E ip \in HandlerIPs, dgram \in Datagrams :
                    ServeLimit(MaxHandlers, ip, dgram))

\* The goroutine of the datagram read at boot time has not started, and the
\* reply to a datagram read one second later is on the wire.
C16_Witness ==
    /\ Len(handlers) = 1
    /\ handlers[1].pc = "decode"
    /\ handlers[1].rxTimestamp = Clock0
    /\ wire.data # <<>>
    /\ <<wire.data[9], wire.data[10]>> = Words(AddSecond(Clock0))

\* The entries whose timer reference is not the registry's timer of their
\* timerId.
Disagree(t) ==
    {i \in 1..Len(t.entries) :
        t.entries[i].Timer # Get(timers, t.entries[i].TimerId).Timer}

\* C17: whenever handleRequest runs FindTimer, the table it reads has no
\* entry whose timer reference and timerId disagree, a route update being in
\* progress or not.
C17_LookupSeesWholeUpdates ==
    [][\A h \in 1..Len(handlers) :
        handleRequestRoute(h) => Disagree(routes) = {}]_vars

\* The timer object at address a is in the registry.
InRegistry(a) == \E i \in 1..Len(timers.entries) : timers.entries[i].Timer = Ptr(a)

\* C18: an AllUpdate adds exactly one second to the stored instant of every
\* ModifyTimer of the registry and changes nothing else; between two
\* AllUpdate calls the stored instant changes only by a successful set, so a
\* timer set to T and ticked k times holds T + k seconds.
C18_AllUpdateAddsOneSecond ==
    /\ [][mainLoop =>
            /\ Len(heap') = Len(heap)
            /\ \A a \in 1..Len(heap) :
                  heap'[a] = IF InRegistry(a) /\ heap[a].kind = "ModifyTimer"
                             THEN [heap[a] EXCEPT !.Time = AddSecond(heap[a].Time)]
                             ELSE heap[a]
            /\ \A a \in 1..Len(heap) :
                  InRegistry(a) /\ heap[a].kind = "ModifyTimer" =>
                      TimerGet(heap', clock', Ptr(a)) =
                          AddSecond(TimerGet(heap, clock, Ptr(a)))
            /\ UNCHANGED <<timers, routes, resp, clock, handlers, wire, shutdown, codec, log, adding, updating>>]_vars
    /\ [][\A a \in 1..Len(heap) :
            heap'[a].Time # heap[a].Time =>
                \/ mainLoop
                \/ /\ resp'.message = "timer update successful"
                   /\ heap'[a].Time = T2000]_vars

\* A ModifyTimer of the registry set to 2000-01-01T00:00:00Z holds that
\* instant plus three seconds after three ticks.
C18_Witness ==
    \E a \in 1..Len(heap) :
        /\ InRegistry(a)
        /\ heap[a].kind = "ModifyTimer"
        /\ TimerGet(heap, clock, Ptr(a)) = AddSecond(AddSecond(AddSecond(T2000)))
        /\ clock = AddSecond(AddSecond(AddSecond(Clock0)))
        /\ ~tickerC

\* C19: a timer created by newModifyTimer keeps the instant of its last set
\* across AllUpdate: a tick changes what no settable timer reports.
C19_TickKeepsSetInstant ==
    [][mainLoop =>
        \A a \in 1..Len(heap) :
            heap[a].kind = "ModifyTimer" =>
                TimerGet(heap', clock', Ptr(a)) = TimerGet(heap, clock, Ptr(a))]_vars

\* C20: updateTimer takes effect only on a ModifyTimer with a time that
\* parses: right after the call the timer's Get() is that instant. On an
\* NtpTimer or SystemTimer it answers "timer can not modified", on an id
\* that is not in the registry "can not find timer by id", and in both
\* cases, as with a time that does not parse, no state changes.
C20_SetOnlySettableTimers ==
    [][\A id \in AddIds, body \in SetBodies :
        updateTimer(id, body) =>
            LET timer == Get(timers, id)
            IN  IF IsNil(timer.Timer)
                THEN /\ resp' = Response("StatusNoContent", "can not find timer by id")
                     /\ UNCHANGED <<heap, timers, routes>>
                ELSE IF TimerName(heap, timer.Timer) \in {"NtpTimer", "SystemTimer"}
                THEN /\ resp' = Response("StatusConflict", "timer can not modified")
                     /\ UNCHANGED <<heap, timers, routes>>
                ELSE IF ~body.ok
                THEN /\ resp'.status = "StatusBadRequest"
                     /\ UNCHANGED <<heap, timers, routes>>
                ELSE /\ resp' = Response("StatusOK", "timer update successful")
                     /\ TimerGet(heap', clock', timer.Timer) = body.time
                     /\ \A a \in 1..Len(heap) :
                            a # timer.Timer.addr => heap'[a] = heap[a]
                     /\ heap'[timer.Timer.addr].kind = "ModifyTimer"
                     /\ UNCHANGED <<timers, routes>>]_vars

\* A ModifyTimer of the registry has just been set to 2000-01-01T00:00:00Z,
\* beside an NtpTimer and a SystemTimer that Set leaves alone.
C20_Witness ==
    /\ resp = Response("StatusOK", "timer update successful")
    /\ \E i \in 1..Len(timers.entries) :
          /\ TimerName(heap, timers.entries[i].Timer) = "ModifyTimer"
          /\ TimerGet(heap, clock, timers.entries[i].Timer) = T2000
    /\ \E i \in 1..Len(timers.entries) :
          TimerName(heap, timers.entries[i].Timer) = "NtpTimer"

\* C21: once idleConnectionsClosed is closed, main's loop runs no further
\* AllUpdate.
C21_TickerStopsAfterDrain ==
    [][mainLoop => ~shutdown.idleConnectionsClosed]_vars

\* C22: once the control plane is drained, the read loop of the NTP server
\* dispatches no further datagram.
C22_NoDispatchAfterDrain ==
    [][Len(handlers') > Len(handlers) => ~shutdown.idleConnectionsClosed]_vars

\* Some entry of the table has the IP of the subnet.
SameIP(t, ipNet) ==
    \E i \in 1..Len(t.entries) : Equal(t.entries[i].IPNet.IP, ipNet.IP)

\* C23: a route is appended as the last entry exactly when no entry has the
\* IP of its subnet; otherwise the request is refused and the entries and
\* the next id stay. No two entries of the table ever share an IP.
C23_AddKeepsIPsUnique ==
    /\ [](\A i, j \in 1..Len(routes.entries) :
            i # j => ~Equal(routes.entries[i].IPNet.IP, routes.entries[j].IPNet.IP))
    /\ [][\A timerId \in TimerIds, subnet \in RouteSubnets :
            (/\ ~IsNil(Get(timers, timerId).Timer)
             /\ ParseCIDR(subnet).ok
             /\ newRoute(timerId, subnet)) =>
                IF SameIP(routes, ParseCIDR(subnet).ipNet)
                THEN /\ routes' = routes
                     /\ resp' = Response("StatusConflict", "route with subnet exist")
                ELSE /\ routes'.nextId = routes.nextId + 1
                     /\ Len(routes'.entries) = Len(routes.entries) + 1
                     /\ SubSeq(routes'.entries, 1, Len(routes.entries)) = routes.entries
                     /\ routes'.entries[Len(routes'.entries)].IPNet = ParseCIDR(subnet).ipNet
                     /\ resp'.status = "StatusCreated"]_vars

\* 192.168.1.0/24 is in the table and a second route with the IP
\* 192.168.1.0 has just been refused.
C23_Witness ==
    /\ resp = Response("StatusConflict", "route with subnet exist")
    /\ Len(routes.entries) = 4
    /\ routes.entries[4].IPNet.IP = <<192, 168, 1, 0>>
    /\ routes.nextId = 4

\* C24: the ids of the entries are pairwise distinct and below nextId; in
\* every step nextId does not decrease, an entry whose id was in the table
\* before is the entry that had it (same subnet), the entries that stay keep
\* their order, and an entry with an id that was not in the table carries
\* the nextId of before, so no id of a removed route comes back.
C24_RouteIdsUniqueAndStable ==
    /\ [](\A i, j \in 1..Len(routes.entries) :
            /\ i # j => routes.entries[i].Id # routes.entries[j].Id
            /\ routes.entries[i].Id < routes.nextId)
    /\ [][/\ routes'.nextId >= routes.nextId
          /\ \A j \in 1..Len(routes'.entries) :
                LET i == IndexOf(routes.entries, routes'.entries[j].Id, 1)
                IN  IF i = 0
                    THEN /\ routes'.entries[j].Id = routes.nextId
                         /\ routes'.nextId = routes.nextId + 1
                         /\ j = Len(routes'.entries)
                    ELSE /\ routes'.entries[j].IPNet = routes.entries[i].IPNet
                         /\ \A k \in 1..(j - 1) :
                               LET l == IndexOf(routes.entries, routes'.entries[k].Id, 1)
                               IN  l # 0 /\ l < i]_vars

\* The route 3 was created and deleted, the next route created got the id
\* 4, and the boot route 0 has been retargeted in between.
C24_Witness ==
    /\ Len(routes.entries) = 4
    /\ routes.nextId = 5
    /\ routes.entries[4].Id = 4
    /\ routes.entries[1].Id = 0
    /\ routes.entries[1].TimerId # 0

\* C25: updateRoute with a known timer changes, on a route of the table,
\* the timer reference and the timer id of that one entry and nothing else
\* of the table; on a route id that is not in the table it answers
\* "entity not found" and the table stays as it was.
C25_SetChangesOneEntry ==
    [][\A routeId \in RouteIds, timerId \in TimerIds :
        (~IsNil(Get(timers, timerId).Timer) /\ updateRoute(routeId, timerId)) =>
            LET i == IndexOf(routes.entries, routeId, 1)
            IN  IF i = 0
                THEN /\ routes' = routes
                     /\ resp' = Response("StatusBadRequest", "entity not found")
                ELSE /\ routes'.nextId = routes.nextId
                     /\ Len(routes'.entries) = Len(routes.entries)
                     /\ \A k \in 1..Len(routes.entries) :
                           k # i => routes'.entries[k] = routes.entries[k]
                     /\ routes'.entries[i] =
                           [Id |-> routes.entries[i].Id,
                            IPNet |-> routes.entries[i].IPNet,
                            Timer |-> Get(timers, timerId).Timer,
                            TimerId |-> timerId]
                     /\ resp'.status = "StatusOK"]_vars

\* The route 3 has been retargeted to the timer 2 while the boot routes
\* still point to the boot timer.
C25_Witness ==
    /\ resp = Response("StatusOK", "route updated successful")
    /\ Len(routes.entries) >= 4
    /\ routes.entries[4].Id = 3
    /\ routes.entries[4].TimerId = 2
    /\ routes.entries[4].Timer = Get(timers, 2).Timer
    /\ \A k \in 1..3 : routes.entries[k].TimerId = 0

\* C26: newRoute with a timer id that is not in the registry answers "can
\* not find timer" and adds no route; with a known timer and a subnet whose
\* IP is in the table it answers "route with subnet exist" and adds no
\* route; with a known timer and a new subnet it adds exactly one route,
\* bound to that timer. A subnet that does not parse adds no route either.
C26_NewRouteOutcomes ==
    [][\A timerId \in TimerIds, subnet \in RouteSubnets :
        newRoute(timerId, subnet) =>
            LET known == \E i \in 1..Len(timers.entries) : timers.entries[i].Id = timerId
                cidr  == ParseCIDR(subnet)
                last  == routes'.entries[Len(routes'.entries)]
            IN  IF ~known
                THEN /\ routes' = routes
                     /\ resp' = Response("StatusBadRequest", "can not find timer")
                ELSE IF ~cidr.ok
                THEN /\ routes' = routes
                     /\ resp' = Response("StatusBadRequest", "can not parse subnet")
                ELSE IF SameIP(routes, cidr.ipNet)
                THEN /\ routes' = routes
                     /\ resp' = Response("StatusConflict", "route with subnet exist")
                ELSE /\ routes'.entries = Append(routes.entries, last)
                     /\ last.IPNet = cidr.ipNet
                     /\ last.TimerId = timerId
                     /\ \E i \in 1..Len(timers.entries) :
                           /\ timers.entries[i].Id = timerId
                           /\ timers.entries[i].Timer = last.Timer
                     /\ resp' = Response("StatusCreated", "create new route success")]_vars

\* A route to the timer 1 is in the table, and a request naming a timer
\* that is not in the registry has just been refused.
C26_Witness ==
    /\ resp = Response("StatusBadRequest", "can not find timer")
    /\ Len(routes.entries) = 4
    /\ routes.entries[4].TimerId = 1
    /\ routes.entries[4].Timer = Ptr(2)

\* The six header fields of a package as numbers, in the order leap,
\* version, mode, stratum, poll, precision.
HeaderFields(pkg) ==
    <<GetLeap(pkg), GetVersion(pkg), GetMode(pkg),
      GetStratum(pkg), GetPoll(pkg), GetPrecision(pkg)>>

\* The widths of the six fields in bits.
FieldBits == <<2, 3, 3, 8, 8, 8>>

\* The package after the k-th header setter is called with the value.
HeaderSet(k, pkg, value) ==
    CASE k = 1 -> SetLeap(pkg, value)
      [] k = 2 -> SetVersion(pkg, value)
      [] k = 3 -> SetMode(pkg, value)
      [] k = 4 -> SetStratum(pkg, value)
      [] k = 5 -> SetPoll(pkg, value)
      [] k = 6 -> SetPrecision(pkg, value)

\* C27: on every package the setters produce, a header setter called with a
\* value within the width of its field makes the getter of the field return
\* that value, and the header word is leap<<30 | version<<27 | mode<<24 |
\* stratum<<16 | poll<<8 | precision of the values the getters return.
C27_HeaderSetGet ==
    LET f == HeaderFields(codec.pkg)
    IN  /\ \A k \in 1..6 : f[k][1] = 0 /\ f[k][2] < 2 ^ FieldBits[k]
        /\ codec.pkg.header =
              <<f[1][2] * 16384 + f[2][2] * 2048 + f[3][2] * 256 + f[4][2],
                f[5][2] * 256 + f[6][2]>>
        /\ \A k \in 1..6, value \in HeaderValues :
              (value[1] = 0 /\ value[2] < 2 ^ FieldBits[k]) =>
                  HeaderFields(HeaderSet(k, codec.pkg, value))[k] = value

\* Leap 3, version 3, mode 1, stratum 255, poll 1 and precision 255 have
\* been set: the header word is 0xD9FF01FF.
C27_Witness ==
    /\ HeaderFields(codec.pkg) =
          <<U32Of(3), U32Of(3), U32Of(1), U32Of(255), U32Of(1), U32Of(255)>>
    /\ codec.pkg.header = <<55807, 511>>

\* C28: on every package the setters produce, a header setter called with
\* b after a call with a gives the package of the call with b alone, for
\* any a and b, in or out of range; the getter of the field then returns b
\* cut to the width of the field, and the other five getters return what
\* they returned before.
C28_SettersIndependent ==
    \A k \in 1..6, b \in HeaderValues :
        LET after == HeaderSet(k, codec.pkg, b)
        IN  /\ HeaderFields(after) =
                  [HeaderFields(codec.pkg) EXCEPT ![k] = U32Of(b[2] % 2 ^ FieldBits[k])]
            /\ \A a \in HeaderValues :
                  HeaderSet(k, HeaderSet(k, codec.pkg, a), b) = after

\* Every field has been set to 0xFFFFFFFF and the version to 0 afterwards:
\* the header word is 0xC7FFFFFF.
C28_Witness ==
    /\ codec.pkg.header = <<51199, 65535>>
    /\ GetVersion(codec.pkg) = U32Of(0)
    /\ GetLeap(codec.pkg) = U32Of(3)
    /\ GetMode(codec.pkg) = U32Of(7)

\* The first 48 bytes of a datagram of at least 48 bytes.
First48(data) == SubSeq(data, 1, PackageWords)

\* C29: ToBytes always gives 48 bytes; PackageFromBytes fails exactly when
\* its input has fewer than 48 bytes, and on 48 bytes or more it gives the
\* package it gives for the first 48 bytes alone, whose header, root delay,
\* root dispersion and reference clock id are the first four words.
C29_EncodeDecodeSizes ==
    /\ [](ByteLen(ToBytes(codec.pkg)) = NTP_PACKAGE_SIZE)
    /\ [][callToBytes => ByteLen(codec'.data) = NTP_PACKAGE_SIZE]_vars
    /\ [][callPackageFromBytes =>
            /\ codec'.err = (ByteLen(codec.data) < NTP_PACKAGE_SIZE)
            /\ codec'.err => codec'.pkg = codec.pkg
            /\ ~codec'.err =>
                  /\ codec'.pkg = PackageFromBytes(First48(codec.data)).pkg
                  /\ <<codec'.pkg.header, codec'.pkg.rootDelay,
                       codec'.pkg.rootDispersion, codec'.pkg.referenceClockId>>
                        = SubSeq(codec.data, 1, 4)]_vars

\* The 48 bytes of a server-mode package with the transmit timestamp 2038
\* and two more bytes behind them have just been decoded without error.
C29_Witness ==
    /\ ByteLen(codec.data) = 50
    /\ ~codec.err
    /\ GetMode(codec.pkg) = NTP_MODE_SERVER
    /\ codec.pkg.transmitTimestamp = ZeroTime
    /\ codec.data[11] = timestampToNtpSeconds(T2038).secs

\* C30: a package whose four timestamps are whole seconds from 1900 to 2038
\* is the same after ToBytes and PackageFromBytes.
C30_RoundTrip ==
    [][(/\ callPackageFromBytes
        /\ codec.data = ToBytes(codec.pkg)
        /\ \A t \in {codec.pkg.referenceTimestamp, codec.pkg.originateTimestamp,
                     codec.pkg.receiveTimestamp, codec.pkg.transmitTimestamp} :
              t \in TestInstants) =>
            codec'.pkg = codec.pkg]_vars

\* The sum of two 32 bit words modulo 2^32.
U32Add(x, y) ==
    <<(x[1] + y[1] + (x[2] + y[2]) \div 65536) % 65536, (x[2] + y[2]) % 65536>>

\* C31: the seconds word of an encoded instant is its Unix seconds cut to
\* 32 bits plus 2,208,988,800 modulo 2^32, before 1970 and past the wrap of
\* the sum as well: 1900-01-01 gives 0, 1970-01-01 gives 2,208,988,800 and
\* 2038-01-01 gives 59,938,304; a whole-second instant gives the fraction
\* word 0.
C31_NtpSecondsOfInstant ==
    [][callToBytes =>
        \A f \in { <<codec.pkg.referenceTimestamp, 5>>,
                   <<codec.pkg.originateTimestamp, 7>>,
                   <<codec.pkg.receiveTimestamp, 9>>,
                   <<codec.pkg.transmitTimestamp, 11>> } :
            LET t == f[1]
                secs == codec'.data[f[2]]
                fracs == codec'.data[f[2] + 1]
            IN  /\ secs = U32Add(<<t.hi % 65536, t.lo>>, <<33706, 32384>>)
                /\ t.ns = 0 => fracs = <<0, 0>>
                /\ t = NtpEpoch => secs = <<0, 0>>
                /\ t = UnixEpoch => secs = <<33706, 32384>>
                /\ t = T2038 => secs = <<914, 38400>>]_vars

\* A package with the reference timestamp 1900-01-01 and the transmit
\* timestamp 2038-01-01 is encoded: the seconds words are 0 and 59,938,304.
C31_Witness ==
    /\ codec.data # <<>>
    /\ codec.pkg.referenceTimestamp = NtpEpoch
    /\ codec.pkg.transmitTimestamp = T2038
    /\ codec.data[5] = <<0, 0>>
    /\ codec.data[11] = <<914, 38400>>
    /\ codec.data[12] = <<0, 0>>

\* C32: the list getAllTimers answers has one element per timer of the
\* registry, and the id of each element is the registry id of that timer.
C32_ListShowsRegistryIds ==
    [][getAllTimers =>
        /\ Len(resp'.Timers) = Len(timers.entries)
        /\ \A i \in 1..Len(timers.entries) :
              /\ resp'.Timers[i].Id = timers.entries[i].Id
              /\ resp'.Timers[i].Type = TimerName(heap, Get(timers, resp'.Timers[i].Id).Timer)]_vars

\* C33: every entry of the table matches a client address in the first
\* pass of FindTimer exactly when it matches it in the second.
C33_PassesEquivalent ==
    \A ip \in ClientIPs, i \in 1..Len(routes.entries) :
        MatchEqual(routes.entries[i], ip) <=> MatchContains(routes.entries[i], ip)

\* C34: Delete(id) of an id the collection does not hold returns the error
\* and leaves the entries and the counter idx as they are; Delete(id) of an
\* id it holds returns no error, and a second Delete(id) right after it
\* returns the error and changes nothing.
C34_DeleteUnknownIdFails ==
    [][\A d \in AddIds :
        deleteTimer(d) =>
            IF IsNil(Get(timers, d).Timer)
            THEN /\ Delete(timers, d).err
                 /\ timers' = timers
                 /\ resp'.message = "can not delete timer by id"
            ELSE /\ ~Delete(timers, d).err
                 /\ timers'.idx = timers.idx
                 /\ resp'.message = "delete timer success"
                 /\ Delete(timers', d).err
                 /\ Delete(timers', d).c = timers']_vars

\* Timers 1 and 2 were added, timer 1 was deleted, and the last Delete was
\* refused: the collection still holds 0 and 2 and the counter stands at 3.
C34_Witness ==
    /\ EntryIds = <<0, 2>>
    /\ timers.idx = 3
    /\ resp.message = "can not delete timer by id"

\* C35: a read without a remote address starts no goroutine and touches no
\* running one; a goroutine that fails (decoding, routing, writing) ends
\* alone, the others keep their records and nothing is written; and after
\* any such failure the loop of Serve still reads, and a goroutine that
\* reaches its write still sends its own reply to its own client.
C35_FailureDropsOneRequest ==
    /\ [][/\ \A dgram \in Datagrams :
               ServeLimit(MaxHandlers, <<>>, dgram) =>
                   handlers' = handlers /\ wire' = wire
          /\ \A h \in 1..Len(handlers) :
               /\ \/ handleRequestDecode(h) /\ ~PackageFromBytes(handlers[h].data).ok
                  \/ handleRequestRoute(h) /\ FindTimer(routes, handlers[h].addr).err
                  \/ handleRequestSendError(h)
                  => /\ handlers' = Exit(handlers, h)
                     /\ wire' = wire
                     /\ log'.level = "error"
               /\ handleRequestSend(h) /\ log.level # "none"
                  => wire' = [to |-> handlers[h].addr,
                              data |-> ToBytes(handlers[h].pkg)]]_vars
    /\ [](log.level # "none" /\ Len(handlers) < MaxHandlers =>
            \A ip \in DropIPs, dgram \in Datagrams :
                ENABLED ServeLimit(MaxHandlers, ip, dgram))

\* The request of 2001:db8::1 was dropped for want of a route in the first
\* second; the request of 10.0.0.5 read in the next second has been answered
\* with its receive timestamp, and no goroutine is left.
C35_Witness ==
    /\ log = Error(Clock0, "no handler found in routing Table")
    /\ handlers = <<>>
    /\ wire.to = <<10, 0, 0, 5>>
    /\ Len(wire.data) = PackageWords
    /\ wire.data[9] = timestampToNtpSeconds(AddSecond(Clock0)).secs

\* C36: when no Add is in progress, the ids of the collection are pairwise
\* different and every timer created is in the collection; and a handler
\* that answers with an id has its timer in the collection under that id.
C36_ConcurrentAddsDistinctIds ==
    /\ [](adding = <<>> =>
            /\ \A i, j \in 1..Len(timers.entries) :
                  i # j => timers.entries[i].Id # timers.entries[j].Id
            /\ Len(timers.entries) = Len(heap))
    /\ [][\A a \in 1..Len(adding) :
            AddAppend(a) => Get(timers', resp'.Id).Timer = adding[a].Timer]_vars

\* C37: timer 1 has been set to T (2000-01-01T00:00:00Z) by the last request,
\* at most one tick has been taken, and no AllUpdate is in progress: the
\* timer's Get() is T or T plus one second.
C37_SetSurvivesTick ==
    /\ updating = NoUpdate
    /\ resp = Response("StatusOK", "timer update successful")
    => TimerGet(heap, clock, Get(timers, 1).Timer) \in {T2000, AddSecond(T2000)}

\* C38: no step of handleRequest (decoding, routing, building the reply,
\* writing it) changes the timer objects (stored instant and reply
\* template), the timer collection or the routing table.
C38_HandleRequestReadsOnly ==
    [][\A h \in 1..Len(handlers) :
          \/ handleRequestDecode(h)
          \/ handleRequestRoute(h)
          \/ handleRequestReply(h)
          \/ handleRequestSend(h)
          => /\ heap' = heap
             /\ timers' = timers
             /\ routes' = routes]_vars

\* 10.0.0.5 has been answered from the settable timer 1 over the route
\* 10.0.0.0/8: the reply carries the timer's instant, and the timer still
\* holds the instant of its creation and the default template beside the
\* boot timer and the four routes.
C38_Witness ==
    /\ wire.to = <<10, 0, 0, 5>>
    /\ Len(heap) = 2
    /\ wire.data[5] = timestampToNtpSeconds(heap[2].Time).secs
    /\ heap[2] = [kind |-> "ModifyTimer", Time |-> Clock0,
                  NTPPackage |-> defaultTimerPackage]
    /\ EntryIds = <<0, 1>>
    /\ Len(routes.entries) = 4
    /\ routes.entries[4].Timer = Ptr(2)

\* The positions of the entries whose prefix address is a loopback, a
\* link-local unicast or the unspecified address.
DefaultSet(t) ==
    {i \in 1..Len(t.entries) :
        \/ IsLoopback(t.entries[i].IPNet.IP)
        \/ IsLinkLocalUnicast(t.entries[i].IPNet.IP)
        \/ IsUnspecified(t.entries[i].IPNet.IP)}

\* C39: deleteRoute refuses with StatusForbidden exactly the entries of
\* DefaultSet and removes every other entry it finds; getDefaultRoute lists
\* exactly the entries of DefaultSet; updateDefaultRoute with a known timer
\* retargets exactly the entries of DefaultSet and leaves the others alone.
C39_DefaultSetIsOneSet ==
    [][/\ \A routeId \in RouteIds :
            LET i == IndexOf(routes.entries, routeId, 1)
            IN  deleteRoute(routeId) /\ i # 0 =>
                  IF i \in DefaultSet(routes)
                  THEN resp'.status = "StatusForbidden" /\ routes' = routes
                  ELSE /\ resp'.status = "StatusCreated"
                       /\ IndexOf(routes'.entries, routeId, 1) = 0
                       /\ Len(routes'.entries) = Len(routes.entries) - 1
       /\ getDefaultRoute =>
            {resp'.Routes[k].Id : k \in 1..Len(resp'.Routes)}
                = {routes.entries[i].Id : i \in DefaultSet(routes)}
       /\ \A timerId \in 0..2 :
            updateDefaultRoute(timerId) /\ ~IsNil(Get(timers, timerId).Timer) =>
                /\ Len(routes'.entries) = Len(routes.entries)
                /\ \A i \in 1..Len(routes.entries) :
                      IF i \in DefaultSet(routes)
                      THEN /\ routes'.entries[i].TimerId = timerId
                           /\ routes'.entries[i].Timer = Get(timers, timerId).Timer
                      ELSE routes'.entries[i] = routes.entries[i]]_vars

\* The operator's routes 169.254.0.0/16 and 192.168.1.0/24 were added to
\* timer 0 behind the boot routes, and the default routes have been
\* retargeted to timer 1: the boot routes and 169.254.0.0/16 carry timer 1,
\* and 192.168.1.0/24 has kept timer 0.
C39_Witness ==
    /\ Len(routes.entries) = 5
    /\ \E i \in 4..5 : routes.entries[i].IPNet.IP = <<169, 254, 0, 0>>
    /\ \E i \in 4..5 : routes.entries[i].IPNet.IP = <<192, 168, 1, 0>>
    /\ Cardinality(DefaultSet(routes)) = 4
    /\ \A i \in 1..5 :
          routes.entries[i].TimerId = IF i \in DefaultSet(routes) THEN 1 ELSE 0
    /\ resp = Response("StatusOK", "default route update success")

====
